---- MODULE Spec2Model ----
(***************************************************************************)
(* tinytasks: the TinyTask cooperative state machine and the TinyTasksPool *)
(* scheduler of include/tinytasks.h, with the work items of test/tests.cpp. *)
(*                                                                         *)
(* Every access to a std::atomic member is one step.  A failed assert()    *)
(* (the build defines no NDEBUG) and an uncaught exception end the process:*)
(* fatal becomes different from "none" and nothing moves any more.          *)
(***************************************************************************)
EXTENDS Integers, Sequences, FiniteSets, TLC

VARIABLES
    m_status,        \* TinyTask::m_status, per task object
    m_isStopping,    \* TinyTask::m_isStopping, per task object
    m_progress,      \* TinyTask::m_progress, per task object
    m_lambda,        \* TinyTask::m_lambda, per task object ("none": empty std::function)
    m_ID,            \* TinyTask::m_ID, per task object
    m_threads,       \* TinyTasksPool::m_threads: per slot, the thread and where it is in TinyTask::Run
    m_threadsTasks,  \* TinyTasksPool::m_threadsTasks: per slot, the bound task object (0: nullptr)
    m_pendingTasks,  \* TinyTasksPool::m_pendingTasks: FIFO of task objects
    m_tasks,         \* TinyTasksPool::m_tasks: id -> task object
    m_nextFreeTaskId,\* TinyTasksPool::m_nextFreeTaskId
    m_poolDataMutex, \* TinyTasksPool::m_poolDataMutex: the caller holding it, or "free"
    m_numThreads,    \* TinyTasksPool::m_numThreads
    call,            \* per caller thread, the operation it is in
    fatal,           \* "none", or why the process has ended
    hist             \* history of the calls made (read by properties only)

taskVars == <<m_status, m_isStopping, m_progress, m_lambda, m_ID>>
poolVars == <<m_threadsTasks, m_pendingTasks, m_tasks, m_nextFreeTaskId, m_poolDataMutex,
              m_numThreads>>
vars == <<m_status, m_isStopping, m_progress, m_lambda, m_ID, m_threads,
          m_threadsTasks, m_pendingTasks, m_tasks, m_nextFreeTaskId,
          m_poolDataMutex, m_numThreads, call, fatal, hist>>

(***************************************************************************)
(* Program constants                                                       *)
(***************************************************************************)
kMinNumThreadsInPool == 2
kMaxNumTasksInPool == 65535
UINT16_MAX == 65535

PAUSED == "PAUSED"
STOPPED == "STOPPED"
RUNNING == "RUNNING"
COMPLETED == "COMPLETED"
Status == {PAUSED, STOPPED, RUNNING, COMPLETED}

SUCCEEDED == "SUCCEEDED"
SUCCEEDED_AT_QUEUE == "SUCCEEDED_AT_QUEUE"
TASK_NOT_FOUND == "TASK_NOT_FOUND"

(***************************************************************************)
(* Bounds of the model                                                     *)
(***************************************************************************)
\* Iterations of a counting work item (the tests count 3 or 5).
MaxCount == 1
\* Task objects one pool allocates.
MaxTasks == 4
\* Task objects of a pool whose tasks are stopped and counted.
MaxCtlTasks == 3
\* Threads a pool is constructed with (the code takes a uint8_t).
MaxThreads == 3

(***************************************************************************)
(* The work items of test/tests.cpp                                        *)
(*   Plain              counts down                                        *)
(*   Progress           counts, calling SetProgress                        *)
(*   Pausable           counts down, PauseIfNeeded in each iteration       *)
(*   Stoppable          counts down while !IsStopping                      *)
(*   StoppablePausable  counts down while !IsStopping, PauseIfNeeded       *)
(*   UntilStop          loops while !IsStopping                            *)
(*   UntilStopPausable  loops while !IsStopping, PauseIfNeeded             *)
(***************************************************************************)
Lambdas == {"Plain", "Progress", "Pausable", "Stoppable", "StoppablePausable",
            "UntilStop", "UntilStopPausable"}
Counts(w) == w \in {"Plain", "Progress", "Pausable", "Stoppable", "StoppablePausable"}
PollsIsStopping(w) == w \in {"Stoppable", "StoppablePausable", "UntilStop", "UntilStopPausable"}
CallsPauseIfNeeded(w) == w \in {"Pausable", "StoppablePausable", "UntilStopPausable"}
CallsSetProgress(w) == w = "Progress"

\* The loop condition of a work item: counter > 0 && !task.IsStopping()
LoopCondition(w, counter, stopping) ==
    /\ Counts(w) => counter > 0
    /\ PollsIsStopping(w) => ~stopping

\* static_cast<float>(counter) / static_cast<float>(maxCount) * 100.0f, counter counting up
ProgressAt(counter) == ((MaxCount - counter) * 100) \div (IF MaxCount = 0 THEN 1 ELSE MaxCount)

(***************************************************************************)
(* TinyTask queries                                                        *)
(***************************************************************************)
GetID(t) == m_ID[t]
GetStatus(t) == m_status[t]
IsRunning(t) == m_status[t] = RUNNING
IsPaused(t) == m_status[t] = PAUSED
IsStopping(t) == m_isStopping[t]
HasStopped(t) == m_status[t] = STOPPED
HasCompleted(t) == m_status[t] = COMPLETED
GetProgress(t) == m_progress[t]

Objs == DOMAIN m_status
Slots == DOMAIN m_threads
Callers == DOMAIN call

(***************************************************************************)
(* Threads.  A thread of the pool (or the taskThread of a test) runs       *)
(* TinyTask::Run of one task object; task 0 is the empty lambda []{} the   *)
(* pool's threads start with.                                              *)
(***************************************************************************)
ThreadDone == [task |-> 0, pc |-> "done", work |-> "none", counter |-> 0]
NewThread(t) == [task |-> t, pc |-> "Run_setRunning", work |-> "none", counter |-> 0]
ThreadEnded(i) == [m_threads[i] EXCEPT !.pc = "done", !.work = "none", !.counter = 0]
JoinableMutant(i) == m_threads[i].pc \in {"done", "Run_setCompleted"}
Joinable(i) == m_threads[i].pc = "done"
\* The threads that are inside TinyTask::Run of task t
InRun(t) == {i \in Slots : m_threads[i].task = t /\ m_threads[i].pc # "done"}

Alive == fatal = "none"

\* Run, line 129: m_status = Status::RUNNING
RunSetRunning(i) ==
    /\ Alive
    /\ m_threads[i].pc = "Run_setRunning"
    /\ m_status' = [m_status EXCEPT ![m_threads[i].task] = RUNNING]
    /\ m_threads' = [m_threads EXCEPT ![i].pc = "Run_call"]
    /\ UNCHANGED <<m_isStopping, m_progress, m_lambda, m_ID, poolVars, call, fatal, hist>>

\* Where a work item begins: in its loop, or, for the work item that calls back
\* into the pool ("CallsPool": it calls GetTask and returns) and the one that
\* reports a progress of its choice ("Reports"), at that call
WorkEntry(w) ==
    CASE w = "CallsPool" -> "work_GetTask"
      [] w = "Reports" -> "work_SetProgress"
      [] OTHER -> "loop_cond"

\* Run, line 130: m_lambda(); an empty std::function throws std::bad_function_call,
\* which nothing catches in the thread: std::terminate
RunCall(i) ==
    /\ Alive
    /\ m_threads[i].pc = "Run_call"
    /\ LET t == m_threads[i].task IN
       IF m_lambda[t] = "none"
       THEN /\ fatal' = "bad_function_call"
            /\ UNCHANGED m_threads
       ELSE /\ m_threads' = [m_threads EXCEPT ![i].pc = WorkEntry(m_lambda[t]),
                                              ![i].work = m_lambda[t],
                                              ![i].counter = MaxCount]
            /\ UNCHANGED fatal
    /\ UNCHANGED <<taskVars, poolVars, call, hist>>

\* The work item's loop condition (tests.cpp 153, 181, 207, 237, 354, 381)
LoopCond(i) ==
    /\ Alive
    /\ m_threads[i].pc = "loop_cond"
    /\ LET t == m_threads[i].task
           th == m_threads[i] IN
       m_threads' = [m_threads EXCEPT ![i].pc =
                        IF LoopCondition(th.work, th.counter, IsStopping(t))
                        THEN "loop_body" ELSE "Run_isStopping"]
    /\ UNCHANGED <<taskVars, poolVars, call, fatal, hist>>

\* SetProgress, line 204: m_progress = progress
SetProgressMutant(t, progress) ==
    [m_progress EXCEPT ![t] = IF progress > 100 THEN 100 ELSE IF progress < 0 THEN 0 ELSE progress]
SetProgress(t, progress) == [m_progress EXCEPT ![t] = progress]

\* The record of the calls of SetProgress: the value the last call on t has passed
Passed(t, progress) == {p \in hist.passed : p[1] # t} \cup {<<t, progress>>}

\* The work item's loop body: SetProgress, the sleep and the counter step
LoopBody(i) ==
    /\ Alive
    /\ m_threads[i].pc = "loop_body"
    /\ LET t == m_threads[i].task
           th == m_threads[i] IN
       /\ m_progress' = IF CallsSetProgress(th.work)
                        THEN SetProgress(t, ProgressAt(th.counter))
                        ELSE m_progress
       /\ hist' = IF CallsSetProgress(th.work)
                  THEN [hist EXCEPT !.passed = Passed(t, ProgressAt(th.counter))]
                  ELSE hist
       /\ m_threads' = [m_threads EXCEPT
                           ![i].counter = IF Counts(th.work) THEN th.counter - 1 ELSE th.counter,
                           ![i].pc = IF CallsPauseIfNeeded(th.work)
                                     THEN "PauseIfNeeded" ELSE "loop_cond"]
    /\ UNCHANGED <<m_status, m_isStopping, m_lambda, m_ID, poolVars, call, fatal>>

\* PauseIfNeeded: while(IsPaused()) sleep_for(milliseconds);
PauseIfNeededReturnsMutant(paused) == TRUE
PauseIfNeededReturns(paused) == ~paused

PauseIfNeeded(i) ==
    /\ Alive
    /\ m_threads[i].pc = "PauseIfNeeded"
    /\ PauseIfNeededReturns(IsPaused(m_threads[i].task))
    /\ m_threads' = [m_threads EXCEPT ![i].pc = "loop_cond"]
    /\ UNCHANGED <<taskVars, poolVars, call, fatal, hist>>

\* Run, line 132: if(IsStopping())
RunTailMutant(stopping) == "Run_setCompleted"
RunTail(stopping) == IF stopping THEN "Run_clearFlag" ELSE "Run_setCompleted"

RunIsStopping(i) ==
    /\ Alive
    /\ m_threads[i].pc = "Run_isStopping"
    /\ m_threads' = [m_threads EXCEPT ![i].pc = RunTail(IsStopping(m_threads[i].task))]
    /\ UNCHANGED <<taskVars, poolVars, call, fatal, hist>>

\* Run, line 134: m_isStopping = false
RunClearFlag(i) ==
    /\ Alive
    /\ m_threads[i].pc = "Run_clearFlag"
    /\ m_isStopping' = [m_isStopping EXCEPT ![m_threads[i].task] = FALSE]
    /\ m_threads' = [m_threads EXCEPT ![i].pc = "Run_setStopped"]
    /\ UNCHANGED <<m_status, m_progress, m_lambda, m_ID, poolVars, call, fatal, hist>>

\* Run, line 135: m_status = Status::STOPPED; return
RunSetStopped(i) ==
    /\ Alive
    /\ m_threads[i].pc = "Run_setStopped"
    /\ m_status' = [m_status EXCEPT ![m_threads[i].task] = STOPPED]
    /\ m_threads' = [m_threads EXCEPT ![i] = ThreadEnded(i)]
    /\ UNCHANGED <<m_isStopping, m_progress, m_lambda, m_ID, poolVars, call, fatal, hist>>

\* Run, line 139: m_status = Status::COMPLETED
RunSetCompleted(i) ==
    /\ Alive
    /\ m_threads[i].pc = "Run_setCompleted"
    /\ m_status' = [m_status EXCEPT ![m_threads[i].task] = COMPLETED]
    /\ m_threads' = [m_threads EXCEPT ![i] = ThreadEnded(i)]
    /\ UNCHANGED <<m_isStopping, m_progress, m_lambda, m_ID, poolVars, call, fatal, hist>>

\* One step of the thread of slot i
ThreadStep(i) ==
    \/ RunSetRunning(i)
    \/ RunCall(i)
    \/ LoopCond(i)
    \/ LoopBody(i)
    \/ PauseIfNeeded(i)
    \/ RunIsStopping(i)
    \/ RunClearFlag(i)
    \/ RunSetStopped(i)
    \/ RunSetCompleted(i)

(***************************************************************************)
(* Caller threads.  A caller is in no call ("idle"), inside one, or has    *)
(* just returned from one ("ret", with the result in ret).                 *)
(***************************************************************************)
CallIdle == [pc |-> "idle", op |-> "none", obj |-> 0, id |-> 0, lam |-> "none",
             idx |-> 0, ret |-> "none"]
Returned(c, r) == [call[c] EXCEPT !.pc = "ret", !.ret = r]
Failed(c, o, t) == [call[c] EXCEPT !.pc = "failed", !.op = o, !.obj = t]

\* The caller takes the result of the call it made
Return(c) ==
    /\ Alive
    /\ call[c].pc = "ret"
    /\ call' = [call EXCEPT ![c] = CallIdle]
    /\ UNCHANGED <<taskVars, m_threads, poolVars, fatal, hist>>

\* Pause, line 145: assert(m_status == Status::RUNNING)
PauseAcceptsMutant(s) == s \in {RUNNING, COMPLETED}
PauseAccepts(s) == s = RUNNING

PauseAssert(c, t) ==
    /\ Alive
    /\ call[c].pc = "idle"
    /\ IF PauseAccepts(m_status[t])
       THEN /\ call' = [call EXCEPT ![c] = [CallIdle EXCEPT !.pc = "Pause_set", !.op = "Pause", !.obj = t]]
            /\ UNCHANGED fatal
       ELSE /\ call' = [call EXCEPT ![c] = Failed(c, "Pause", t)]
            /\ fatal' = "assert"
    /\ UNCHANGED <<taskVars, m_threads, poolVars, hist>>

\* Pause, line 146: m_status = Status::PAUSED
PauseSet(c) ==
    /\ Alive
    /\ call[c].pc = "Pause_set"
    /\ m_status' = [m_status EXCEPT ![call[c].obj] = PAUSED]
    /\ call' = [call EXCEPT ![c] = Returned(c, "void")]
    /\ UNCHANGED <<m_isStopping, m_progress, m_lambda, m_ID, m_threads, poolVars, fatal, hist>>

\* Resume, line 152: assert(m_status == Status::PAUSED)
ResumeAccepts(s) == s = PAUSED

\* Resume, called by the caller
ResumeAssert(c, t) ==
    /\ Alive
    /\ call[c].pc = "idle"
    /\ IF ResumeAccepts(m_status[t])
       THEN /\ call' = [call EXCEPT ![c] = [CallIdle EXCEPT !.pc = "Resume_set", !.op = "Resume", !.obj = t]]
            /\ UNCHANGED fatal
       ELSE /\ call' = [call EXCEPT ![c] = Failed(c, "Resume", t)]
            /\ fatal' = "assert"
    /\ UNCHANGED <<taskVars, m_threads, poolVars, hist>>

\* Resume, line 153: m_status = Status::RUNNING; back in Stop (line 162) when Stop called it
ResumeSet(c) ==
    /\ Alive
    /\ call[c].pc = "Resume_set"
    /\ m_status' = [m_status EXCEPT ![call[c].obj] = RUNNING]
    /\ call' = [call EXCEPT ![c] = IF call[c].op = "Stop"
                                   THEN [call[c] EXCEPT !.pc = "Stop_setFlag"]
                                   ELSE Returned(c, "void")]
    /\ UNCHANGED <<m_isStopping, m_progress, m_lambda, m_ID, m_threads, poolVars, fatal, hist>>

\* Stop, line 159: assert(m_status == Status::RUNNING || m_status == Status::PAUSED)
StopAccepts(s) == s = RUNNING \/ s = PAUSED

StopAssert(c, t) ==
    /\ Alive
    /\ call[c].pc = "idle"
    /\ IF StopAccepts(m_status[t])
       THEN /\ call' = [call EXCEPT ![c] = [CallIdle EXCEPT !.pc = "Stop_isPaused", !.op = "Stop", !.obj = t]]
            /\ hist' = [hist EXCEPT !.stops = @ \cup {t}]
            /\ UNCHANGED fatal
       ELSE /\ call' = [call EXCEPT ![c] = Failed(c, "Stop", t)]
            /\ fatal' = "assert"
            /\ UNCHANGED hist
    /\ UNCHANGED <<taskVars, m_threads, poolVars>>

\* Stop, line 161: if(IsPaused()) Resume();
StopIsPaused(c) ==
    /\ Alive
    /\ call[c].pc = "Stop_isPaused"
    /\ call' = [call EXCEPT ![c].pc = IF IsPaused(call[c].obj)
                                      THEN "Stop_Resume_assert" ELSE "Stop_setFlag"]
    /\ UNCHANGED <<taskVars, m_threads, poolVars, fatal, hist>>

\* Resume, line 152, called from Stop
StopResumeAssert(c) ==
    /\ Alive
    /\ call[c].pc = "Stop_Resume_assert"
    /\ IF ResumeAccepts(m_status[call[c].obj])
       THEN /\ call' = [call EXCEPT ![c].pc = "Resume_set"]
            /\ UNCHANGED fatal
       ELSE /\ call' = [call EXCEPT ![c].pc = "failed"]
            /\ fatal' = "assert"
    /\ UNCHANGED <<taskVars, m_threads, poolVars, hist>>

\* Stop, line 162: m_isStopping = true
StopSetFlag(c) ==
    /\ Alive
    /\ call[c].pc = "Stop_setFlag"
    /\ m_isStopping' = [m_isStopping EXCEPT ![call[c].obj] = TRUE]
    /\ call' = [call EXCEPT ![c] = Returned(c, "void")]
    /\ UNCHANGED <<m_status, m_progress, m_lambda, m_ID, m_threads, poolVars, fatal, hist>>

\* A step inside a TinyTask call already made
TaskCallStep(c) ==
    \/ PauseSet(c)
    \/ ResumeSet(c)
    \/ StopIsPaused(c)
    \/ StopResumeAssert(c)
    \/ StopSetFlag(c)

(***************************************************************************)
(* A TinyTask of its own, as the tests of TinyTask drive it: constructed   *)
(* with a work item and id UINT16_MAX, run on a std::thread, and paused,   *)
(* resumed and stopped from the test's thread.                             *)
(***************************************************************************)
HistInit == [stops |-> {}, created |-> <<>>, rpt |-> FALSE, steady |-> FALSE, deleted |-> <<>>,
             passed |-> {}]

\* TinyTask(taskLambda, id), lines 110-114
InitTask ==
    /\ m_status = <<PAUSED>>
    /\ m_isStopping = <<FALSE>>
    /\ m_progress = <<0>>
    /\ m_lambda \in {<<w>> : w \in Lambdas}
    /\ m_ID = <<UINT16_MAX>>
    /\ m_threads = <<ThreadDone>>
    /\ m_threadsTasks = <<>>
    /\ m_pendingTasks = <<>>
    /\ m_tasks = <<>>
    /\ m_nextFreeTaskId = 0
    /\ m_poolDataMutex = "free"
    /\ m_numThreads = 0
    /\ call = [c \in {"main"} |-> CallIdle]
    /\ fatal = "none"
    /\ hist = HistInit

\* std::thread taskThread(&TinyTask::Run, &task), once the thread before it has ended
TaskThread(i, t) ==
    /\ Alive
    /\ Joinable(i)
    /\ m_threads' = [m_threads EXCEPT ![i] = NewThread(t)]
    /\ UNCHANGED <<taskVars, poolVars, call, fatal, hist>>

\* task.SetLambda(newLambda), line 209, between two runs
SetLambda(t, w) == [m_lambda EXCEPT ![t] = w]

TaskSetLambda(i, t, w) ==
    /\ Alive
    /\ Joinable(i)
    /\ m_lambda[t] # w
    /\ m_lambda' = SetLambda(t, w)
    /\ UNCHANGED <<m_status, m_isStopping, m_progress, m_ID, m_threads, poolVars, call, fatal, hist>>

NextTask ==
    \/ \E i \in Slots : RunSetRunning(i)
    \/ \E i \in Slots : RunCall(i)
    \/ \E i \in Slots : LoopCond(i)
    \/ \E i \in Slots : LoopBody(i)
    \/ \E i \in Slots : PauseIfNeeded(i)
    \/ \E i \in Slots : RunIsStopping(i)
    \/ \E i \in Slots : RunClearFlag(i)
    \/ \E i \in Slots : RunSetStopped(i)
    \/ \E i \in Slots : RunSetCompleted(i)
    \/ \E c \in Callers, t \in Objs : PauseAssert(c, t)
    \/ \E c \in Callers : PauseSet(c)
    \/ \E c \in Callers, t \in Objs : ResumeAssert(c, t)
    \/ \E c \in Callers : ResumeSet(c)
    \/ \E c \in Callers, t \in Objs : StopAssert(c, t)
    \/ \E c \in Callers : StopIsPaused(c)
    \/ \E c \in Callers : StopResumeAssert(c)
    \/ \E c \in Callers : StopSetFlag(c)
    \/ \E c \in Callers : Return(c)
    \/ \E i \in Slots, t \in Objs : TaskThread(i, t)
    \/ \E i \in Slots, t \in Objs, w \in Lambdas : TaskSetLambda(i, t, w)

SpecTask == InitTask /\ [][NextTask]_vars

\* The scheduler runs every thread that can take a step
FairTask ==
    /\ SpecTask
    /\ \A i \in {1} : WF_vars(ThreadStep(i))
    /\ \A c \in {"main"} : WF_vars(TaskCallStep(c))

(***************************************************************************)
(* Properties of the TinyTask state machine (SpecTask, FairTask)           *)
(***************************************************************************)
\* The thread of slot i leaves TinyTask::Run of a task in this step
RunEnds(i) == m_threads[i].pc # "done" /\ m_threads'[i].pc = "done" /\ m_threads[i].task # 0
\* The caller is at the first step of a call it has just begun
NewCall(c) ==
    \/ call[c].pc \in {"failed", "Pause_set", "Stop_isPaused"}
    \/ call[c].pc = "Resume_set" /\ call[c].op = "Resume"

\* C1: when the work item has returned, Run takes the Stopped branch (clearing
\* isStopping, then writing STOPPED) exactly when isStopping is set at the read
\* of line 132, and the Completed branch otherwise; a task on which Stop() was
\* never called ends its run Completed; no step changes a task's id.
C1_RunEnd ==
    [][/\ \A i \in Slots :
            LET t == m_threads[i].task IN
            /\ (m_threads[i].pc = "Run_isStopping" /\ m_threads'[i].pc # "Run_isStopping")
                  => m_threads'[i].pc = (IF m_isStopping[t] THEN "Run_clearFlag"
                                                            ELSE "Run_setCompleted")
            /\ (m_threads[i].pc = "Run_clearFlag" /\ m_threads'[i].pc # "Run_clearFlag")
                  => (~m_isStopping'[t] /\ m_threads'[i].pc = "Run_setStopped")
            /\ RunEnds(i)
                  => /\ m_status'[t] = (IF m_threads[i].pc = "Run_setStopped"
                                        THEN STOPPED ELSE COMPLETED)
                     /\ m_threads[i].pc \in {"Run_setStopped", "Run_setCompleted"}
                     /\ (t \notin hist.stops => m_status'[t] = COMPLETED)
       /\ m_ID' = m_ID]_vars

\* C1 witness: a run has ended Stopped with the flag cleared
C1_Witness ==
    /\ m_threads[1].task = 1 /\ m_threads[1].pc = "done"
    /\ m_status[1] = STOPPED /\ ~m_isStopping[1]

\* C2: when Stop() has been called on a Running task (it has found the task
\* Running and not Paused, no earlier stop request is pending) whose thread is
\* in Run with a work item that polls IsStopping(), and the caller makes no
\* further call, the task eventually has HasStopped() with IsStopping() false.
C2_StopCalledRunning ==
    /\ call["main"].pc = "Stop_setFlag"
    /\ IsRunning(1) /\ ~IsStopping(1)
    /\ PollsIsStopping(m_lambda[1])
    /\ \E i \in InRun(1) :
          m_threads[i].pc \notin {"Run_setRunning", "Run_clearFlag", "Run_setStopped"}

C2_StopWhileRunning ==
    [](C2_StopCalledRunning => <>((HasStopped(1) /\ ~IsStopping(1)) \/ NewCall("main")))

\* C3: when Stop() is called on a Paused task whose work item waits in
\* PauseIfNeeded and polls IsStopping() in its loop (Stop has found the task
\* Paused and is about to resume it), and the caller makes no other call, the
\* task eventually is Stopped.
C3_StopCalledPaused ==
    /\ call["main"].pc = "Stop_Resume_assert"
    /\ IsPaused(1)
    /\ PollsIsStopping(m_lambda[1])
    /\ \E i \in InRun(1) : m_threads[i].pc = "PauseIfNeeded"

C3_StopWhilePaused ==
    [](C3_StopCalledPaused =>
          <>(HasStopped(1) \/ NewCall("main")))

\* C4: for the counting work item that calls PauseIfNeeded in each iteration,
\* once Pause() was accepted on the Running task, whenever a later Resume() has
\* returned and the caller makes no further call, the task eventually is
\* Completed.
C4_PauseAccepted ==
    /\ call["main"].pc = "Pause_set"
    /\ IsRunning(1) /\ ~IsStopping(1)
    /\ m_lambda[1] = "Pausable"
    /\ InRun(1) # {}
    /\ 1 \notin hist.stops

C4_ResumeReturned ==
    /\ call["main"].pc = "ret" /\ call["main"].op = "Resume"
    /\ m_lambda[1] = "Pausable" /\ ~IsStopping(1)
    /\ 1 \notin hist.stops

C4_PauseResumeCompletes ==
    [](C4_PauseAccepted =>
          [](C4_ResumeReturned => <>(HasCompleted(1) \/ NewCall("main"))))

\* C5: a call of Pause() goes on only from status Running, of Resume() only
\* from Paused, of Stop() only from Running or Paused; from any other status it
\* ends the process in a failed assertion, with status and isStopping as they
\* were, and nothing changes them afterwards.
C5_Accepted(o, s) ==
    CASE o = "Pause" -> s = RUNNING
      [] o = "Resume" -> s = PAUSED
      [] o = "Stop" -> s \in {RUNNING, PAUSED}
      [] OTHER -> TRUE

C5_WrongState ==
    [][/\ \A c \in Callers :
            (call[c].pc = "idle" /\ call'[c].pc # "idle"
                 /\ call'[c].op \in {"Pause", "Resume", "Stop"})
            => LET t == call'[c].obj IN
               IF C5_Accepted(call'[c].op, m_status[t])
               THEN call'[c].pc # "failed" /\ fatal' = "none"
               ELSE /\ call'[c].pc = "failed" /\ fatal' = "assert"
                    /\ m_status' = m_status /\ m_isStopping' = m_isStopping
       /\ fatal # "none" => (m_status' = m_status /\ m_isStopping' = m_isStopping)]_vars

\* C5 witness: Pause() on a task that has Completed has ended the process
C5_Witness ==
    /\ call["main"].pc = "failed" /\ call["main"].op = "Pause"
    /\ fatal = "assert" /\ HasCompleted(1)

\* C6: a task's status changes only Paused->Running, Running->Paused,
\* Running->Stopped, Running->Completed, and Stopped->Running and
\* Completed->Running as Run starts a new run cycle.
C6_Edge(i, from, to) ==
    \/ <<from, to>> \in {<<PAUSED, RUNNING>>, <<RUNNING, PAUSED>>,
                         <<RUNNING, STOPPED>>, <<RUNNING, COMPLETED>>}
    \/ /\ <<from, to>> \in {<<STOPPED, RUNNING>>, <<COMPLETED, RUNNING>>}
       /\ \E j \in Slots : m_threads[j].pc = "Run_setRunning" /\ m_threads'[j].pc = "Run_call"

C6_StatusEdges ==
    [][\A t \in Objs : m_status'[t] # m_status[t] => C6_Edge(t, m_status[t], m_status'[t])]_vars

(***************************************************************************)
(* TinyTasksPool.  A call holds m_poolDataMutex from its lock_guard to its *)
(* return; what it does under the lock without waiting is one step, and    *)
(* each std::thread::join is a step that waits for the thread to end.      *)
(***************************************************************************)
GetNumThreads == m_numThreads
GetNumPendingTasks == Len(m_pendingTasks)
Range(q) == {q[k] : k \in DOMAIN q}
Min(S) == CHOOSE x \in S : \A y \in S : x <= y

\* The work items given to the pool here: one that returns on its own (as those
\* of tests.cpp 303, 332-335) and one that loops until Stop (tests.cpp 352-359);
\* "none" is an empty std::function
PoolLambdas == {"Plain", "UntilStop"}

\* InitThreads, line 429: std::thread newThread([]{})
EmptyThread == [task |-> 0, pc |-> "empty_lambda", work |-> "none", counter |-> 0]

\* InitThreads, lines 422-432: m_numThreads threads of the empty lambda
InitThreads(n) == [i \in 1..n |-> EmptyThread]

\* InitThreadsTasks, lines 435-443: m_numThreads slots holding nullptr
InitThreadsTasksMutant(n) == [i \in 1..(n + 1) |-> 0]
InitThreadsTasks(n) == [i \in 1..n |-> 0]

\* TinyTasksPool(numThreads), lines 259-265; assert(m_numThreads > 0)
PoolOf(numThreads) ==
    /\ m_status = <<>>
    /\ m_isStopping = <<>>
    /\ m_progress = <<>>
    /\ m_lambda = <<>>
    /\ m_ID = <<>>
    /\ m_numThreads = numThreads
    /\ m_threads = IF numThreads > 0 THEN InitThreads(numThreads) ELSE <<>>
    /\ m_threadsTasks = IF numThreads > 0 THEN InitThreadsTasks(numThreads) ELSE <<>>
    /\ m_pendingTasks = <<>>
    /\ m_tasks = <<>>
    /\ m_nextFreeTaskId = 0
    /\ m_poolDataMutex = "free"
    /\ fatal = (IF numThreads > 0 THEN "none" ELSE "assert")
    /\ hist = HistInit

\* TinyTasksPool(), lines 250-255, used by one caller thread
InitPool ==
    /\ PoolOf(kMinNumThreadsInPool)
    /\ call = [c \in {"main"} |-> CallIdle]

\* The thread of []{} returns
EmptyLambda(i) ==
    /\ Alive
    /\ m_threads[i].pc = "empty_lambda"
    /\ m_threads' = [m_threads EXCEPT ![i] = ThreadDone]
    /\ UNCHANGED <<taskVars, poolVars, call, fatal, hist>>

\* CreateTask, line 281: assert(m_nextFreeTaskId < kMaxNumTasksInPool), before the lock
CreateTaskAssert(c) ==
    /\ Alive
    /\ call[c].pc = "idle"
    /\ Len(m_status) + Cardinality({d \in Callers : call[d].pc = "CreateTask_lock"}) < MaxTasks
    /\ IF m_nextFreeTaskId < kMaxNumTasksInPool
       THEN /\ call' = [call EXCEPT ![c] = [CallIdle EXCEPT !.pc = "CreateTask_lock", !.op = "CreateTask"]]
            /\ UNCHANGED fatal
       ELSE /\ call' = [call EXCEPT ![c] = Failed(c, "CreateTask", 0)]
            /\ fatal' = "assert"
    /\ UNCHANGED <<taskVars, m_threads, poolVars, hist>>

\* CreateTask, lines 286-298: the first slot of m_threadsTasks holding nullptr (0: none)
FirstFreeSlotKeepsOneMutant ==
    LET free == {i \in DOMAIN m_threadsTasks : m_threadsTasks[i] = 0}
    IN IF Cardinality(free) <= 1 THEN 0 ELSE Min(free)
FirstFreeSlotMutant ==
    LET free == {i \in DOMAIN m_threadsTasks : m_threadsTasks[i] = 0}
    IN IF free = {} THEN 0 ELSE CHOOSE x \in free : \A y \in free : y <= x
FirstFreeSlot ==
    LET free == {i \in DOMAIN m_threadsTasks : m_threadsTasks[i] = 0}
    IN IF free = {} THEN 0 ELSE Min(free)

\* return m_nextFreeTaskId++ on a uint16_t: the value the counter has afterwards
NextFreeTaskIdMutant(id) == id
NextFreeTaskId(id) == (id + 1) % 65536

\* m_tasks.insert(std::pair(id, task)): std::map::insert keeps an entry the key has already
MapInsert(map, id, t) == IF id \in DOMAIN map THEN map ELSE (id :> t) @@ map

\* CreateTask, lines 283-307, under the lock
CreateTaskLocked(c) ==
    /\ Alive
    /\ call[c].pc = "CreateTask_lock"
    /\ m_poolDataMutex = "free"
    /\ LET id == m_nextFreeTaskId
           newTask == Len(m_status) + 1
           slot == FirstFreeSlot
       IN /\ m_status' = Append(m_status, PAUSED)
          /\ m_isStopping' = Append(m_isStopping, FALSE)
          /\ m_progress' = Append(m_progress, 0)
          /\ m_lambda' = Append(m_lambda, "none")
          /\ m_ID' = Append(m_ID, id)
          /\ m_tasks' = MapInsert(m_tasks, id, newTask)
          /\ IF slot # 0
             THEN /\ m_threadsTasks' = [m_threadsTasks EXCEPT ![slot] = newTask]
                  /\ UNCHANGED m_pendingTasks
             ELSE /\ m_pendingTasks' = Append(m_pendingTasks, newTask)
                  /\ UNCHANGED m_threadsTasks
          /\ m_nextFreeTaskId' = NextFreeTaskId(id)
          /\ call' = [call EXCEPT ![c] = Returned(c, id)]
          /\ hist' = [hist EXCEPT !.created = Append(@, id)]
    /\ UNCHANGED <<m_threads, m_poolDataMutex, fatal, m_numThreads>>

\* SetNewLambdaForTask, lines 319-333: the loop over m_threadsTasks stops at the first
\* slot holding nullptr (assert(threadTask) fails) or the task with the id; 0: neither
ScanSlot(taskID) ==
    LET hit == {i \in DOMAIN m_threadsTasks :
                   m_threadsTasks[i] = 0 \/ m_ID[m_threadsTasks[i]] = taskID}
    IN IF hit = {} THEN 0 ELSE Min(hit)

\* line 324: assert(HasCompleted() || !IsRunning() || !IsPaused())
Assert324(t) == HasCompleted(t) \/ ~IsRunning(t) \/ ~IsPaused(t)

\* The work item of task t is being called: replacing m_lambda now is a data race
LambdaInUse(t) ==
    \E i \in Slots : /\ m_threads[i].task = t
                     /\ m_threads[i].pc \in {"Run_call", "loop_cond", "loop_body", "PauseIfNeeded",
                                            "work_GetTask"}

\* line 335-342: auto task = m_tasks.find(taskID); if(task->second) ... : the results
\* the call can give.  For an id not in the map find() returns end(), and
\* task->second reads past the map: what is read there may be null, or not
QueuedResults(taskID) ==
    IF taskID \in DOMAIN m_tasks THEN {SUCCEEDED_AT_QUEUE} ELSE {TASK_NOT_FOUND, "undefined"}

\* SetNewLambdaForTask, lines 314-342, to its return or to the join of line 326
SetNewLambdaForTask(c, taskID, newLambda) ==
    /\ Alive
    /\ call[c].pc = "idle"
    /\ m_poolDataMutex = "free"
    /\ LET me == [CallIdle EXCEPT !.op = "SetNewLambdaForTask", !.id = taskID, !.lam = newLambda]
           slot == ScanSlot(taskID)
           stop(why) == /\ call' = [call EXCEPT ![c] = [me EXCEPT !.pc = "failed"]]
                        /\ fatal' = why
                        /\ UNCHANGED <<m_lambda, m_poolDataMutex>>
       IN IF newLambda = "none"
          THEN stop("assert")
          ELSE IF slot # 0
          THEN LET t == m_threadsTasks[slot] IN
               IF t = 0 \/ ~Assert324(t)
               THEN stop("assert")
               ELSE \/ /\ m_lambda' = SetLambda(t, newLambda)
                       /\ m_poolDataMutex' = c
                       /\ call' = [call EXCEPT ![c] = [me EXCEPT !.pc = "SetNewLambda_join",
                                                                  !.idx = slot, !.obj = t]]
                       /\ UNCHANGED fatal
                    \/ /\ LambdaInUse(t)
                       /\ stop("undefined")
          ELSE \E r \in QueuedResults(taskID) :
                  IF r = "undefined"
                  THEN stop("undefined")
                  ELSE /\ m_lambda' = IF taskID \in DOMAIN m_tasks
                                      THEN SetLambda(m_tasks[taskID], newLambda)
                                      ELSE m_lambda
                       /\ call' = [call EXCEPT ![c] = [me EXCEPT !.pc = "ret", !.ret = r]]
                       /\ UNCHANGED <<fatal, m_poolDataMutex>>
    /\ UNCHANGED <<m_status, m_isStopping, m_progress, m_ID, m_threads, m_threadsTasks,
                   m_pendingTasks, m_tasks, m_nextFreeTaskId, hist, m_numThreads>>

\* SetNewLambdaForTask, lines 326-329: join, then the new thread in the slot
SetNewLambdaJoin(c) ==
    /\ Alive
    /\ call[c].pc = "SetNewLambda_join"
    /\ Joinable(call[c].idx)
    /\ m_threads' = [m_threads EXCEPT ![call[c].idx] = NewThread(call[c].obj)]
    /\ m_poolDataMutex' = "free"
    /\ call' = [call EXCEPT ![c] = Returned(c, SUCCEEDED)]
    /\ UNCHANGED <<taskVars, m_threadsTasks, m_pendingTasks, m_tasks, m_nextFreeTaskId,
                   fatal, hist, m_numThreads>>

\* RunPendingTasks, lines 348-350
RunPendingTasks(c) ==
    /\ Alive
    /\ call[c].pc = "idle"
    /\ m_poolDataMutex = "free"
    /\ m_poolDataMutex' = c
    /\ call' = [call EXCEPT ![c] = [CallIdle EXCEPT !.pc = "RunPending_loop",
                                                    !.op = "RunPendingTasks", !.idx = 1]]
    /\ hist' = [hist EXCEPT !.rpt = TRUE]
    /\ UNCHANGED <<taskVars, m_threads, m_threadsTasks, m_pendingTasks, m_tasks,
                   m_nextFreeTaskId, fatal, m_numThreads>>

\* RunPendingTasks, line 355: the slot's task can be replaced
SlotFinishedMutant(t) == HasStopped(t)
SlotFinished(t) == HasStopped(t) \/ HasCompleted(t)

\* RunPendingTasks, lines 352-368: one turn of the loop, to the join of line 358
RunPendingLoop(c) ==
    /\ Alive
    /\ call[c].pc = "RunPending_loop"
    /\ LET i == call[c].idx
           leave == /\ call' = [call EXCEPT ![c] = Returned(c, SUCCEEDED)]
                    /\ m_poolDataMutex' = "free"
                    /\ UNCHANGED fatal
       IN IF i > Len(m_threadsTasks)
          THEN leave
          ELSE IF m_threadsTasks[i] = 0
          THEN /\ call' = [call EXCEPT ![c].pc = "failed"]
               /\ fatal' = "assert"
               /\ UNCHANGED m_poolDataMutex
          ELSE IF SlotFinished(m_threadsTasks[i])
          THEN IF m_pendingTasks = <<>>
               THEN leave
               ELSE /\ call' = [call EXCEPT ![c].pc = "RunPending_join"]
                    /\ UNCHANGED <<fatal, m_poolDataMutex>>
          ELSE /\ call' = [call EXCEPT ![c].idx = i + 1]
               /\ UNCHANGED <<fatal, m_poolDataMutex>>
    /\ UNCHANGED <<taskVars, m_threads, m_threadsTasks, m_pendingTasks, m_tasks,
                   m_nextFreeTaskId, hist, m_numThreads>>

\* std::queue: m_pendingTasks.front() (line 359) and what pop() leaves (line 360)
FrontMutant(q) == q[Len(q)]
Front(q) == q[1]
PopMutant(q) == q
Pop(q) == SubSeq(q, 2, Len(q))

\* RunPendingTasks, lines 358-362: join, the front of the queue into the slot, its thread
RunPendingJoin(c) ==
    /\ Alive
    /\ call[c].pc = "RunPending_join"
    /\ Joinable(call[c].idx)
    /\ m_threadsTasks' = [m_threadsTasks EXCEPT ![call[c].idx] = Front(m_pendingTasks)]
    /\ m_pendingTasks' = Pop(m_pendingTasks)
    /\ m_threads' = [m_threads EXCEPT ![call[c].idx] = NewThread(Front(m_pendingTasks))]
    /\ call' = [call EXCEPT ![c] = [call[c] EXCEPT !.pc = "RunPending_loop", !.idx = @ + 1]]
    /\ UNCHANGED <<taskVars, m_tasks, m_nextFreeTaskId, m_poolDataMutex, fatal, hist, m_numThreads>>

\* m_tasks.find(taskID), lines 396-399: the task object, 0 (nullptr) for end()
MapFindMutant(map, id) == IF id \in DOMAIN map THEN map[Min(DOMAIN map)] ELSE 0
MapFind(map, id) == IF id \in DOMAIN map THEN map[id] ELSE 0

\* GetTask, lines 392-402, under the lock
GetTask(c, taskID) ==
    /\ Alive
    /\ call[c].pc = "idle"
    /\ m_poolDataMutex = "free"
    /\ call' = [call EXCEPT ![c] = [CallIdle EXCEPT !.pc = "ret", !.op = "GetTask",
                                                    !.id = taskID,
                                                    !.ret = MapFind(m_tasks, taskID)]]
    /\ UNCHANGED <<taskVars, m_threads, poolVars, fatal, hist>>

\* The ids a caller may pass: those given out, and one more
SomeIds == 0..Len(m_status)

\* A caller that creates, dispatches and drains; the work items end on their own
\* or run on ("UntilStop" with no Stop), so a slot can stay taken
NextPool ==
    \/ \E i \in Slots : EmptyLambda(i)
    \/ \E i \in Slots : RunSetRunning(i)
    \/ \E i \in Slots : RunCall(i)
    \/ \E i \in Slots : LoopCond(i)
    \/ \E i \in Slots : LoopBody(i)
    \/ \E i \in Slots : RunIsStopping(i)
    \/ \E i \in Slots : RunSetCompleted(i)
    \/ \E c \in Callers : CreateTaskAssert(c)
    \/ \E c \in Callers : CreateTaskLocked(c)
    \/ \E c \in Callers, id \in SomeIds, w \in PoolLambdas \cup {"none"} : SetNewLambdaForTask(c, id, w)
    \/ \E c \in Callers : SetNewLambdaJoin(c)
    \/ \E c \in Callers : RunPendingTasks(c)
    \/ \E c \in Callers : RunPendingLoop(c)
    \/ \E c \in Callers : RunPendingJoin(c)
    \/ \E c \in Callers, id \in SomeIds : GetTask(c, id)
    \/ \E c \in Callers : Return(c)

SpecPool == InitPool /\ [][NextPool]_vars

\* The step is a call of SetNewLambdaForTask by c with a work item, up to its
\* return, its failure or its join
Dispatches(c) ==
    /\ call[c].pc = "idle"
    /\ call'[c].op = "SetNewLambdaForTask"
    /\ call'[c].lam # "none"

IsQueued(t) == t \in Range(m_pendingTasks)
IsSlotBound(t) == t \in Range(m_threadsTasks)

\* C7: the ids CreateTask returns on one pool are 0, 1, 2, ... in call order
\* (the k-th call, counting from 0, returns k), so no id is returned twice,
\* whatever has become of the tasks created before.
C7_IdsInCallOrder ==
    /\ \A k \in DOMAIN hist.created : hist.created[k] = k - 1
    /\ \A c \in Callers :
          call[c].op = "CreateTask" /\ call[c].pc = "ret"
              => call[c].ret = Len(hist.created) - 1

\* A CreateTask has returned after the first task has completed and
\* RunPendingTasks has put the queued third task into its slot
C7_Witness ==
    /\ call["main"].op = "CreateTask"
    /\ call["main"].pc = "ret"
    /\ call["main"].ret = kMinNumThreadsInPool + 1
    /\ HasCompleted(1)
    /\ m_threadsTasks[1] = kMinNumThreadsInPool + 1

\* C8: as long as RunPendingTasks has not been called, the first dispatch of the
\* k-th created task (k from 0) goes to slot k when k < GetNumThreads, where the
\* task is bound, and returns SUCCEEDED; for k >= GetNumThreads it returns
\* SUCCEEDED_AT_QUEUE; and the pending queue holds the tasks created beyond
\* GetNumThreads.
C8_FreshPoolDispatch ==
    /\ [](~hist.rpt =>
            /\ GetNumPendingTasks =
                  (IF Len(hist.created) > GetNumThreads
                   THEN Len(hist.created) - GetNumThreads ELSE 0)
            /\ \A c \in Callers :
                  call[c].op = "SetNewLambdaForTask" /\ call[c].pc = "ret" /\ call[c].ret = SUCCEEDED
                      => call[c].id < GetNumThreads)
    /\ [][\A c \in Callers :
            (/\ Dispatches(c)
             /\ ~hist.rpt
             /\ call'[c].id \in DOMAIN m_tasks
             /\ m_lambda[m_tasks[call'[c].id]] = "none")
            => IF call'[c].id < GetNumThreads
               THEN /\ call'[c].pc = "SetNewLambda_join"
                    /\ call'[c].idx = call'[c].id + 1
                    /\ m_threadsTasks[call'[c].idx] = m_tasks[call'[c].id]
               ELSE /\ call'[c].pc = "ret"
                    /\ call'[c].ret = SUCCEEDED_AT_QUEUE]_vars

\* Every slot's task has been dispatched and the dispatch of the next one has
\* returned SUCCEEDED_AT_QUEUE
C8_Witness ==
    /\ ~hist.rpt
    /\ Len(hist.created) = kMinNumThreadsInPool + 1
    /\ \A i \in Slots : m_threads[i].task = i
    /\ call["main"].op = "SetNewLambdaForTask"
    /\ call["main"].pc = "ret"
    /\ call["main"].id = kMinNumThreadsInPool
    /\ call["main"].ret = SUCCEEDED_AT_QUEUE
    /\ GetNumPendingTasks = 1

\* C9: SetNewLambdaForTask with an id CreateTask never returned returns
\* TASK_NOT_FOUND, does not fail, and leaves slots, queue, directory and
\* threads as they were.
C9_UnknownIdNotFound ==
    [][\A c \in Callers :
          (Dispatches(c) /\ call'[c].id \notin Range(hist.created))
          => /\ call'[c].pc = "ret"
             /\ call'[c].ret = TASK_NOT_FOUND
             /\ fatal' = "none"
             /\ UNCHANGED <<m_threadsTasks, m_pendingTasks, m_tasks, m_threads>>]_vars

\* C10: for a task of the directory, SetNewLambdaForTask returns
\* SUCCEEDED_AT_QUEUE exactly when the task is in the pending queue, and then
\* starts no thread; it goes on to dispatch (and return SUCCEEDED) only when the
\* task is bound to a slot, and a slot-bound task never gets one of the other
\* two results.
C10_QueuedIffInQueue ==
    [][\A c \in Callers :
          (Dispatches(c) /\ call'[c].id \in DOMAIN m_tasks)
          => LET t == m_tasks[call'[c].id]
                 queued == call'[c].pc = "ret" /\ call'[c].ret = SUCCEEDED_AT_QUEUE
             IN /\ queued <=> IsQueued(t)
                /\ queued => m_threads' = m_threads
                /\ call'[c].pc = "SetNewLambda_join" => IsSlotBound(t)
                /\ IsSlotBound(t) => call'[c].pc # "ret"]_vars

\* The task object the call of CreateTask that returned id has allocated (0: none)
CreatedAs(id) ==
    LET ks == {k \in DOMAIN hist.created : hist.created[k] = id}
    IN IF ks = {} THEN 0 ELSE Min(ks)

\* C11: GetTask(id) returns, for an id CreateTask has returned, the task object
\* that call allocated, whose id it is, wherever the task is now (slot, queue,
\* neither); for any other id it returns nullptr; and a call of GetTask does
\* not fail and changes nothing of the pool or its tasks.
C11_GetTask ==
    /\ [](\A c \in Callers :
             (call[c].op = "GetTask" /\ call[c].pc = "ret")
             => /\ call[c].ret = CreatedAs(call[c].id)
                /\ call[c].ret # 0 => GetID(call[c].ret) = call[c].id)
    /\ [][\A c \in Callers :
             (call[c].pc = "idle" /\ call'[c].op = "GetTask")
             => /\ call'[c].pc = "ret"
                /\ fatal' = "none"
                /\ UNCHANGED <<taskVars, poolVars, m_threads>>]_vars

\* GetTask has returned the first task after RunPendingTasks has replaced it in
\* its slot
C11_Witness ==
    /\ call["main"].op = "GetTask"
    /\ call["main"].pc = "ret"
    /\ call["main"].ret = 1
    /\ HasCompleted(1)
    /\ ~IsSlotBound(1)
    /\ ~IsQueued(1)

\* C12: the pending queue is in creation order (ids increasing from the front),
\* CreateTask adds at the back, and the only other change is RunPendingTasks
\* taking the task at the front, the one with the lowest id of the queue,
\* binding it to a slot and starting its thread: a queued task is moved and
\* started before every task queued after it.
C12_FifoDrain ==
    [][m_pendingTasks' # m_pendingTasks =>
         \/ /\ Len(m_pendingTasks') = Len(m_pendingTasks) + 1
            /\ SubSeq(m_pendingTasks', 1, Len(m_pendingTasks)) = m_pendingTasks
            /\ \A k \in DOMAIN m_pendingTasks :
                  GetID(m_pendingTasks[k]) < m_ID'[m_pendingTasks'[Len(m_pendingTasks')]]
         \/ /\ m_pendingTasks # <<>>
            /\ m_pendingTasks' = Tail(m_pendingTasks)
            /\ \A k \in DOMAIN m_pendingTasks' :
                  GetID(Head(m_pendingTasks)) < GetID(m_pendingTasks'[k])
            /\ \E c \in Callers :
                  /\ call[c].pc = "RunPending_join"
                  /\ m_threadsTasks'[call[c].idx] = Head(m_pendingTasks)
                  /\ m_threads'[call[c].idx] = NewThread(Head(m_pendingTasks))]_vars

\* One call of RunPendingTasks has moved the two queued tasks, the older one
\* into the first slot
C12_Witness ==
    /\ m_threadsTasks = <<kMinNumThreadsInPool + 1, kMinNumThreadsInPool + 2>>
    /\ m_pendingTasks = <<>>
    /\ call["main"].op = "RunPendingTasks"
    /\ call["main"].pc = "ret"

(***************************************************************************)
(* The caller of TestRunPendingTasksInTinyTasksPool (tests.cpp 406-445):   *)
(* it creates MaxTasks tasks, dispatching each right after its CreateTask  *)
(* with a work item that returns on its own, then calls RunPendingTasks     *)
(* while GetNumPendingTasks() > 0.                                         *)
(***************************************************************************)
AllDispatched == \A t \in Objs : m_lambda[t] # "none"

\* tests.cpp 414
DrainCreate(c) ==
    /\ AllDispatched
    /\ CreateTaskAssert(c)

\* tests.cpp 417-420: the id CreateTask has just returned
DrainDispatch(c) ==
    \E t \in Objs :
       /\ m_lambda[t] = "none"
       /\ SetNewLambdaForTask(c, GetID(t), "Plain")

\* tests.cpp 430-433
DrainRunPending(c) ==
    /\ Len(m_status) = MaxTasks
    /\ AllDispatched
    /\ GetNumPendingTasks > 0
    /\ RunPendingTasks(c)

\* One step of the thread of slot i of a pool
PoolThreadStep(i) == EmptyLambda(i) \/ ThreadStep(i)

\* One step of the test's thread
DrainCallerStep(c) ==
    \/ DrainCreate(c)
    \/ CreateTaskLocked(c)
    \/ DrainDispatch(c)
    \/ SetNewLambdaJoin(c)
    \/ DrainRunPending(c)
    \/ RunPendingLoop(c)
    \/ RunPendingJoin(c)
    \/ Return(c)

NextDrain ==
    \/ \E i \in Slots : EmptyLambda(i)
    \/ \E i \in Slots : RunSetRunning(i)
    \/ \E i \in Slots : RunCall(i)
    \/ \E i \in Slots : LoopCond(i)
    \/ \E i \in Slots : LoopBody(i)
    \/ \E i \in Slots : RunIsStopping(i)
    \/ \E i \in Slots : RunSetCompleted(i)
    \/ \E c \in Callers : DrainCreate(c)
    \/ \E c \in Callers : CreateTaskLocked(c)
    \/ \E c \in Callers : DrainDispatch(c)
    \/ \E c \in Callers : SetNewLambdaJoin(c)
    \/ \E c \in Callers : DrainRunPending(c)
    \/ \E c \in Callers : RunPendingLoop(c)
    \/ \E c \in Callers : RunPendingJoin(c)
    \/ \E c \in Callers : Return(c)

SpecDrain == InitPool /\ [][NextDrain]_vars

\* Every thread that can take a step is scheduled, the test's thread included
FairDrain ==
    /\ SpecDrain
    /\ \A i \in 1..kMinNumThreadsInPool : WF_vars(PoolThreadStep(i))
    /\ \A c \in {"main"} : WF_vars(DrainCallerStep(c))

\* C13: with more tasks than slots, each created and dispatched with a work
\* item that returns on its own, and a caller calling RunPendingTasks while
\* GetNumPendingTasks() > 0, eventually the queue is empty for good and every
\* task, dispatched or queued, is Completed.
C13_AllDrained ==
    /\ Len(m_status) = MaxTasks
    /\ GetNumPendingTasks = 0
    /\ \A t \in Objs : HasCompleted(t)

C13_DrainCompletes == <>[]C13_AllDrained

\* The queued tasks have been drained by RunPendingTasks and all have completed
C13_Witness ==
    /\ C13_AllDrained
    /\ MaxTasks > GetNumThreads
    /\ hist.rpt
    /\ \A i \in Slots : m_threadsTasks[i] > GetNumThreads

(***************************************************************************)
(* GetNumRunningTasks and the destructor                                   *)
(***************************************************************************)
\* The status of no slot-bound task can change unless a caller makes a call:
\* each such task has no thread in Run, or one that is inside a work item
\* looping until a Stop that has not been asked for
Steady ==
    \A i \in Slots : m_threadsTasks[i] # 0 =>
       \A j \in InRun(m_threadsTasks[i]) :
          /\ m_threads[j].pc \in {"loop_cond", "loop_body"}
          /\ m_threads[j].work = "UntilStop"
          /\ ~IsStopping(m_threadsTasks[i])

\* The slots whose bound task has status Running
RunningSlots == {i \in Slots : m_threadsTasks[i] # 0 /\ IsRunning(m_threadsTasks[i])}

\* GetNumRunningTasks, line 380: if(threadTask && threadTask->IsRunning())
CountedMutant(threadTask) == threadTask # 0 /\ ~HasStopped(threadTask)
Counted(threadTask) == threadTask # 0 /\ IsRunning(threadTask)

\* GetNumRunningTasks, lines 374-376: the lock, numRunningTasks = 0
GetNumRunningTasks(c) ==
    /\ Alive
    /\ call[c].pc = "idle"
    /\ m_poolDataMutex = "free"
    /\ m_poolDataMutex' = c
    /\ call' = [call EXCEPT ![c] = [CallIdle EXCEPT !.pc = "GetNumRunning_loop",
                                                    !.op = "GetNumRunningTasks",
                                                    !.idx = 1, !.ret = 0]]
    /\ hist' = [hist EXCEPT !.steady = Steady]
    /\ UNCHANGED <<taskVars, m_threads, m_threadsTasks, m_pendingTasks, m_tasks,
                   m_nextFreeTaskId, m_numThreads, fatal>>

\* ~TinyTasksPool, line 270: the call of GetNumRunningTasks in the assert
Destructor(c) ==
    /\ Alive
    /\ call[c].pc = "idle"
    /\ m_poolDataMutex = "free"
    /\ m_poolDataMutex' = c
    /\ call' = [call EXCEPT ![c] = [CallIdle EXCEPT !.pc = "GetNumRunning_loop",
                                                    !.op = "~TinyTasksPool",
                                                    !.idx = 1, !.ret = 0]]
    /\ hist' = [hist EXCEPT !.steady = Steady]
    /\ UNCHANGED <<taskVars, m_threads, m_threadsTasks, m_pendingTasks, m_tasks,
                   m_nextFreeTaskId, m_numThreads, fatal>>

\* GetNumRunningTasks, lines 378-386: one slot of the loop, or the return; in the
\* destructor the assert of line 270 on the value returned
GetNumRunningLoop(c) ==
    /\ Alive
    /\ call[c].pc = "GetNumRunning_loop"
    /\ LET i == call[c].idx IN
       IF i <= Len(m_threadsTasks)
       THEN /\ call' = [call EXCEPT ![c].idx = i + 1,
                                    ![c].ret = IF Counted(m_threadsTasks[i])
                                               THEN (@ + 1) % 256 ELSE @]
            /\ UNCHANGED <<m_poolDataMutex, fatal>>
       ELSE /\ m_poolDataMutex' = "free"
            /\ IF call[c].op = "GetNumRunningTasks"
               THEN /\ call' = [call EXCEPT ![c].pc = "ret"]
                    /\ UNCHANGED fatal
               ELSE IF call[c].ret = 0
               THEN /\ call' = [call EXCEPT ![c].pc = "StopAllThreads", ![c].idx = 1]
                    /\ UNCHANGED fatal
               ELSE /\ call' = [call EXCEPT ![c].pc = "failed"]
                    /\ fatal' = "assert"
    /\ UNCHANGED <<taskVars, m_threads, m_threadsTasks, m_pendingTasks, m_tasks,
                   m_nextFreeTaskId, m_numThreads, hist>>

\* A thread that has been joined and not replaced
ThreadJoined == [task |-> 0, pc |-> "joined", work |-> "none", counter |-> 0]

\* StopAllThreads, lines 468-474: aThread.join(), thread after thread
StopAllThreads(c) ==
    /\ Alive
    /\ call[c].pc = "StopAllThreads"
    /\ call[c].idx <= Len(m_threads)
    /\ Joinable(call[c].idx)
    /\ m_threads' = [m_threads EXCEPT ![call[c].idx] = ThreadJoined]
    /\ call' = [call EXCEPT ![c].idx = @ + 1]
    /\ UNCHANGED <<taskVars, poolVars, fatal, hist>>

\* DeleteTasksAllocations, lines 453-465: the task objects deleted, entry by entry
DeletedByMutant(map) == [k \in 1..Cardinality(DOMAIN map) |-> map[Min(DOMAIN map)]]
DeletedBy(map) == [k \in 1..Cardinality(DOMAIN map) |->
                      map[CHOOSE id \in DOMAIN map :
                             Cardinality({x \in DOMAIN map : x < id}) = k - 1]]

\* ~TinyTasksPool, lines 272-274: InitThreadsTasks, ClearPendingTasks,
\* DeleteTasksAllocations, once every thread has been joined
DestructorRelease(c) ==
    /\ Alive
    /\ call[c].pc = "StopAllThreads"
    /\ call[c].idx > Len(m_threads)
    /\ m_threadsTasks' = InitThreadsTasks(m_numThreads)
    /\ m_pendingTasks' = <<>>
    /\ m_tasks' = [id \in DOMAIN m_tasks |-> 0]
    /\ hist' = [hist EXCEPT !.deleted = DeletedBy(m_tasks)]
    /\ call' = [call EXCEPT ![c].pc = "destroyed"]
    /\ UNCHANGED <<taskVars, m_threads, m_nextFreeTaskId, m_poolDataMutex, m_numThreads, fatal>>

(***************************************************************************)
(* A pool whose caller creates tasks, dispatches them, stops them, counts  *)
(* the running ones and destroys the pool, in any order; the work item is  *)
(* the one of tests.cpp 460-467, which loops until IsStopping().           *)
(***************************************************************************)
CtlCreate(c) ==
    /\ Len(m_status) < MaxCtlTasks
    /\ CreateTaskAssert(c)

NextCtl ==
    \/ \E i \in Slots : EmptyLambda(i)
    \/ \E i \in Slots : RunSetRunning(i)
    \/ \E i \in Slots : RunCall(i)
    \/ \E i \in Slots : LoopCond(i)
    \/ \E i \in Slots : LoopBody(i)
    \/ \E i \in Slots : RunIsStopping(i)
    \/ \E i \in Slots : RunClearFlag(i)
    \/ \E i \in Slots : RunSetStopped(i)
    \/ \E c \in Callers : CtlCreate(c)
    \/ \E c \in Callers : CreateTaskLocked(c)
    \/ \E c \in Callers, id \in DOMAIN m_tasks : SetNewLambdaForTask(c, id, "UntilStop")
    \/ \E c \in Callers : SetNewLambdaJoin(c)
    \/ \E c \in Callers, t \in Objs : StopAssert(c, t)
    \/ \E c \in Callers : StopIsPaused(c)
    \/ \E c \in Callers : StopResumeAssert(c)
    \/ \E c \in Callers : ResumeSet(c)
    \/ \E c \in Callers : StopSetFlag(c)
    \/ \E c \in Callers : GetNumRunningTasks(c)
    \/ \E c \in Callers : Destructor(c)
    \/ \E c \in Callers : GetNumRunningLoop(c)
    \/ \E c \in Callers : StopAllThreads(c)
    \/ \E c \in Callers : DestructorRelease(c)
    \/ \E c \in Callers : Return(c)

SpecCtl == InitPool /\ [][NextCtl]_vars

\* C14: GetNumRunningTasks counts a slot exactly when it has a bound task whose
\* status it reads as Running, and nothing else (no unbound slot, no queued
\* task); when no status of a slot-bound task can change during the call (the
\* dispatched tasks have been seen Running and loop until Stop, or have been
\* stopped and seen Stopped) the value returned is the number of slots whose
\* bound task is Running: K for K such running tasks, 0 when all have stopped.
C14_RunningCount ==
    /\ [](\A c \in Callers :
             (call[c].op = "GetNumRunningTasks" /\ call[c].pc = "ret" /\ hist.steady)
             => call[c].ret = Cardinality(RunningSlots))
    /\ [][\A c \in Callers :
             (/\ call[c].op = "GetNumRunningTasks"
              /\ call[c].pc = "GetNumRunning_loop"
              /\ call'[c] # call[c])
             => LET i == call[c].idx IN
                IF i <= GetNumThreads
                THEN call'[c].ret = call[c].ret + (IF i \in RunningSlots THEN 1 ELSE 0)
                ELSE call'[c].ret = call[c].ret]_vars

\* With one task stopped and seen Stopped, one looping and Running, and one in
\* the queue, GetNumRunningTasks has returned 1
C14_Witness ==
    /\ call["main"].op = "GetNumRunningTasks"
    /\ call["main"].pc = "ret"
    /\ call["main"].ret = 1
    /\ hist.steady
    /\ HasStopped(m_threadsTasks[1])
    /\ IsRunning(m_threadsTasks[2])
    /\ InRun(m_threadsTasks[2]) # {}
    /\ m_pendingTasks # <<>>

\* C19: the destructor ends the process in a failed assertion, with nothing
\* joined or released, when its call of GetNumRunningTasks returns a value other
\* than 0; when it returns 0, the destructor, once through, has joined every
\* thread, unbound every slot, emptied the queue and deleted every task object
\* of the directory exactly once; nothing is deleted before.
C19_Teardown ==
    /\ [](\A c \in Callers :
             /\ call[c].pc = "destroyed"
                  => /\ \A i \in Slots : m_threads[i] = ThreadJoined
                     /\ m_threadsTasks = [i \in 1..m_numThreads |-> 0]
                     /\ m_pendingTasks = <<>>
                     /\ \A t \in Objs :
                           Cardinality({k \in DOMAIN hist.deleted : hist.deleted[k] = t}) = 1
                     /\ \A id \in DOMAIN m_tasks : m_tasks[id] = 0
             /\ call[c].pc # "destroyed" => hist.deleted = <<>>)
    /\ [][\A c \in Callers :
             (/\ call[c].op = "~TinyTasksPool"
              /\ call[c].pc = "GetNumRunning_loop"
              /\ call[c].idx > GetNumThreads
              /\ call'[c] # call[c])
             => IF call[c].ret # 0
                THEN /\ fatal' = "assert"
                     /\ call'[c].pc = "failed"
                     /\ UNCHANGED <<m_threads, m_threadsTasks, m_pendingTasks, m_tasks>>
                ELSE /\ fatal' = "none"
                     /\ call'[c].pc = "StopAllThreads"]_vars

\* The destructor is through on a pool that had a stopped task and a queued one
C19_Witness ==
    /\ call["main"].pc = "destroyed"
    /\ Len(hist.deleted) = MaxCtlTasks
    /\ Len(m_status) > GetNumThreads
    /\ \E t \in Objs : HasStopped(t)

(***************************************************************************)
(* Pools constructed with a thread count                                   *)
(***************************************************************************)
\* TinyTasksPool(numThreads) with kMinNumThreadsInPool <= numThreads
InitSized ==
    /\ \E n \in kMinNumThreadsInPool..MaxThreads : PoolOf(n)
    /\ call = [c \in {"main"} |-> CallIdle]

SizedCreate(c) ==
    /\ Len(m_status) <= m_numThreads
    /\ CreateTaskAssert(c)

NextSized ==
    \/ \E i \in Slots : EmptyLambda(i)
    \/ \E i \in Slots : RunSetRunning(i)
    \/ \E i \in Slots : RunCall(i)
    \/ \E i \in Slots : LoopCond(i)
    \/ \E i \in Slots : LoopBody(i)
    \/ \E i \in Slots : RunIsStopping(i)
    \/ \E i \in Slots : RunSetCompleted(i)
    \/ \E c \in Callers : SizedCreate(c)
    \/ \E c \in Callers : CreateTaskLocked(c)
    \/ \E c \in Callers, id \in DOMAIN m_tasks : SetNewLambdaForTask(c, id, "Plain")
    \/ \E c \in Callers : SetNewLambdaJoin(c)
    \/ \E c \in Callers : RunPendingTasks(c)
    \/ \E c \in Callers : RunPendingLoop(c)
    \/ \E c \in Callers : RunPendingJoin(c)
    \/ \E c \in Callers : Return(c)

SpecSized == InitSized /\ [][NextSized]_vars

\* C15: a pool constructed with thread count n >= 2 has n slots, all unbound,
\* n threads and an empty queue, and GetNumThreads() = n; the default
\* constructor gives n = kMinNumThreadsInPool = 2; no call of CreateTask,
\* SetNewLambdaForTask or RunPendingTasks changes GetNumThreads() or the number
\* of slots and threads.
C15_Constructed ==
    /\ GetNumThreads \in kMinNumThreadsInPool..MaxThreads
    /\ Len(m_threadsTasks) = GetNumThreads
    /\ Len(m_threads) = GetNumThreads
    /\ hist.created = <<>> =>
          /\ \A i \in Slots : m_threadsTasks[i] = 0
          /\ m_pendingTasks = <<>>

C15_SlotCount ==
    /\ kMinNumThreadsInPool = 2
    /\ []C15_Constructed
    /\ [][/\ GetNumThreads' = GetNumThreads
          /\ Len(m_threadsTasks') = Len(m_threadsTasks)
          /\ Len(m_threads') = Len(m_threads)]_vars

\* A pool of MaxThreads threads after CreateTask, SetNewLambdaForTask and a
\* RunPendingTasks that has put the queued task into the first slot
C15_Witness ==
    /\ GetNumThreads = MaxThreads
    /\ Len(m_status) = MaxThreads + 1
    /\ hist.rpt
    /\ m_threadsTasks[1] = MaxThreads + 1

(***************************************************************************)
(* Two caller threads on one pool                                          *)
(***************************************************************************)
InitTwo ==
    /\ PoolOf(kMinNumThreadsInPool)
    /\ call = [c \in {"main", "other"} |-> CallIdle]

TwoCreate(c) ==
    /\ Len(m_status) + Cardinality({d \in Callers : call[d].pc = "CreateTask_lock"}) < MaxCtlTasks
    /\ CreateTaskAssert(c)

\* GetNumPendingTasks(), line 418, called by a caller thread: m_pendingTasks.size()
\* is read without the lock; read while another thread is inside the lock, which
\* may be writing the queue, the value is not defined
CallGetNumPendingTasks(c) ==
    /\ Alive
    /\ call[c].pc = "idle"
    /\ LET me == [CallIdle EXCEPT !.pc = "ret", !.op = "GetNumPendingTasks"]
       IN \/ call' = [call EXCEPT ![c] = [me EXCEPT !.ret = GetNumPendingTasks]]
          \/ /\ m_poolDataMutex # "free"
             /\ call' = [call EXCEPT ![c] = [me EXCEPT !.ret = "undefined"]]
    /\ UNCHANGED <<taskVars, m_threads, poolVars, fatal, hist>>

NextTwo ==
    \/ \E i \in Slots : EmptyLambda(i)
    \/ \E i \in Slots : RunSetRunning(i)
    \/ \E i \in Slots : RunCall(i)
    \/ \E i \in Slots : LoopCond(i)
    \/ \E i \in Slots : LoopBody(i)
    \/ \E i \in Slots : RunIsStopping(i)
    \/ \E i \in Slots : RunSetCompleted(i)
    \/ \E c \in Callers : TwoCreate(c)
    \/ \E c \in Callers : CreateTaskLocked(c)
    \/ \E c \in Callers, id \in DOMAIN m_tasks : SetNewLambdaForTask(c, id, "Plain")
    \/ \E c \in Callers : SetNewLambdaJoin(c)
    \/ \E c \in Callers : RunPendingTasks(c)
    \/ \E c \in Callers : RunPendingLoop(c)
    \/ \E c \in Callers : RunPendingJoin(c)
    \/ \E c \in Callers : CallGetNumPendingTasks(c)
    \/ \E c \in Callers : Return(c)

SpecTwo == InitTwo /\ [][NextTwo]_vars

\* C16: whatever two caller threads do with CreateTask, SetNewLambdaForTask
\* (the same id again included) and RunPendingTasks, at most one thread is
\* inside TinyTask::Run of a task at a time: no two slots have a thread in Run
\* of the same task, and a slot gets a new thread only when the thread it had
\* has ended.
C16_OneRunPerTask ==
    /\ [](\A t \in Objs : Cardinality(InRun(t)) <= 1)
    /\ [][\A i \in Slots :
             (m_threads'[i] # m_threads[i] /\ m_threads'[i].pc = "Run_setRunning")
             => Joinable(i)]_vars

\* A second caller waits in the join of SetNewLambdaForTask for the thread that
\* runs the task the first caller has dispatched
C16_Witness ==
    /\ call["main"].op = "SetNewLambdaForTask"
    /\ call["main"].pc = "ret"
    /\ call["other"].pc = "SetNewLambda_join"
    /\ call["other"].id = call["main"].id
    /\ InRun(call["other"].obj) # {}

(***************************************************************************)
(* A work item that calls back into the pool                               *)
(***************************************************************************)
\* std::lock_guard<std::mutex> lock(m_poolDataMutex) can be taken
TryLockMutant == TRUE
TryLock == m_poolDataMutex = "free"

\* The work item's call of GetTask (lines 392-402): it waits for the lock, looks
\* up and returns; the work item then returns to Run
WorkGetTask(i) ==
    /\ Alive
    /\ m_threads[i].pc = "work_GetTask"
    /\ TryLock
    /\ m_threads' = [m_threads EXCEPT ![i].pc = "Run_isStopping"]
    /\ UNCHANGED <<taskVars, poolVars, call, fatal, hist>>

NextReentrant ==
    \/ \E i \in Slots : EmptyLambda(i)
    \/ \E i \in Slots : RunSetRunning(i)
    \/ \E i \in Slots : RunCall(i)
    \/ \E i \in Slots : WorkGetTask(i)
    \/ \E i \in Slots : RunIsStopping(i)
    \/ \E i \in Slots : RunSetCompleted(i)
    \/ \E c \in Callers : CtlCreate(c)
    \/ \E c \in Callers : CreateTaskLocked(c)
    \/ \E c \in Callers, id \in DOMAIN m_tasks : SetNewLambdaForTask(c, id, "CallsPool")
    \/ \E c \in Callers : SetNewLambdaJoin(c)
    \/ \E c \in Callers : RunPendingTasks(c)
    \/ \E c \in Callers : RunPendingLoop(c)
    \/ \E c \in Callers : RunPendingJoin(c)
    \/ \E c \in Callers : Return(c)

SpecReentrant == InitPool /\ [][NextReentrant]_vars

\* Caller c holds the pool's lock in the join of slot i's thread, and that
\* thread's work item waits for the lock
Deadlocked(c, i) ==
    /\ call[c].pc \in {"SetNewLambda_join", "RunPending_join"}
    /\ call[c].idx = i
    /\ m_poolDataMutex = c
    /\ m_threads[i].pc = "work_GetTask"

\* C17: once a caller is in the join of SetNewLambdaForTask or RunPendingTasks
\* for a thread whose work item is calling a locking pool operation, the caller
\* stays in the join with the lock and the thread stays at its call for ever.
C17_DeadlockStays ==
    [][\A c \in Callers, i \in Slots :
          Deadlocked(c, i) =>
             /\ call'[c] = call[c]
             /\ m_threads'[i] = m_threads[i]
             /\ m_poolDataMutex' = m_poolDataMutex]_vars

\* The deadlock in SetNewLambdaForTask: the task was dispatched again before its
\* thread had called the work item
C17_Witness ==
    /\ Deadlocked("main", 1)
    /\ call["main"].pc = "SetNewLambda_join"

(***************************************************************************)
(* References to a task from the slots and the pending queue               *)
(***************************************************************************)
\* Number of slots of threadsTasks and positions of pendingTasks that hold t
RefCountIn(threadsTasks, pendingTasks, t) ==
    Cardinality({i \in DOMAIN threadsTasks : threadsTasks[i] = t})
    + Cardinality({k \in DOMAIN pendingTasks : pendingTasks[k] = t})

RefCount(t) == RefCountIn(m_threadsTasks, m_pendingTasks, t)

\* C18 as stated: every task of the directory is held by exactly one slot or
\* exactly one position of the pending queue.
C18_ExactlyOneReference ==
    \A t \in Range(m_tasks) : RefCount(t) = 1

\* C18, amended: every task of the directory is held by at most one slot or
\* queue position (never both, never two slots, never twice in the queue); a
\* task held by one loses that reference only when RunPendingTasks, having
\* found its run cycle ended, gives its slot to the front task of the queue,
\* and a task held by none is never held again.
C18_AtMostOneReference ==
    /\ [](\A t \in Range(m_tasks) : RefCount(t) <= 1)
    /\ [][\A t \in Range(m_tasks) :
             LET after == RefCountIn(m_threadsTasks', m_pendingTasks', t)
             IN /\ RefCount(t) = 0 => after = 0
                /\ (RefCount(t) = 1 /\ after = 0)
                   => \E c \in Callers :
                         /\ call[c].pc = "RunPending_join"
                         /\ call'[c] # call[c]
                         /\ m_threadsTasks[call[c].idx] = t
                         /\ SlotFinished(t)
                         /\ m_pendingTasks # <<>>
                         /\ m_threadsTasks'[call[c].idx] = Front(m_pendingTasks)
                         /\ m_pendingTasks' = Pop(m_pendingTasks)]_vars

\* RunPendingTasks has replaced a completed task: the directory still has it,
\* no slot and no queue position does, and every other task is held once
C18_Witness ==
    /\ Len(m_status) = MaxTasks
    /\ \E t \in Range(m_tasks) :
          /\ RefCount(t) = 0
          /\ HasCompleted(t)
          /\ \A u \in Range(m_tasks) \ {t} : RefCount(u) = 1

(***************************************************************************)
(* Re-arming: a caller that dispatches a slot-bound task when it reads the *)
(* task's status as not yet run or as ended, as tests.cpp 296-321 does,    *)
(* and that stops a task it reads as Running.                              *)
(***************************************************************************)
\* tests.cpp 300-301, 311-313: SetNewLambdaForTask on a task not dispatched
\* before, or read as ended
RearmDispatch(c, taskID, newLambda) ==
    /\ taskID \in DOMAIN m_tasks
    /\ IsSlotBound(m_tasks[taskID])
    /\ \/ \E i \in Slots : m_threadsTasks[i] = m_tasks[taskID] /\ m_threads[i].task = 0
       \/ SlotFinished(m_tasks[taskID])
    /\ SetNewLambdaForTask(c, taskID, newLambda)

\* tests.cpp 473-476: Stop() on a task read as Running
RearmStop(c, t) == IsRunning(t) /\ StopAssert(c, t)

NextRearm ==
    \/ \E i \in Slots : EmptyLambda(i)
    \/ \E i \in Slots : RunSetRunning(i)
    \/ \E i \in Slots : RunCall(i)
    \/ \E i \in Slots : LoopCond(i)
    \/ \E i \in Slots : LoopBody(i)
    \/ \E i \in Slots : RunIsStopping(i)
    \/ \E i \in Slots : RunClearFlag(i)
    \/ \E i \in Slots : RunSetStopped(i)
    \/ \E i \in Slots : RunSetCompleted(i)
    \/ \E c \in Callers : CtlCreate(c)
    \/ \E c \in Callers : CreateTaskLocked(c)
    \/ \E c \in Callers, id \in SomeIds, lam \in PoolLambdas : RearmDispatch(c, id, lam)
    \/ \E c \in Callers : SetNewLambdaJoin(c)
    \/ \E c \in Callers, t \in Objs : RearmStop(c, t)
    \/ \E c \in Callers : StopIsPaused(c)
    \/ \E c \in Callers : StopSetFlag(c)
    \/ \E c \in Callers : Return(c)

SpecRearm == InitPool /\ [][NextRearm]_vars

\* Caller c begins SetNewLambdaForTask on the slot-bound task t of slot i,
\* whose status is Completed or Stopped
Rearms(c, i, t) ==
    /\ Dispatches(c)
    /\ m_threadsTasks[i] = t
    /\ t # 0
    /\ call'[c].id = m_ID[t]
    /\ SlotFinished(t)

\* C20: SetNewLambdaForTask on a slot-bound task whose status is Completed or
\* Stopped stores the work item and goes to the join of the task's slot, from
\* which it starts the task's thread on that slot and returns SUCCEEDED; the
\* work item is called by the thread this call starts and by no other (the
\* slot's earlier thread does not call it while the call waits in its join);
\* the thread sets the status to Running before it calls the work item, and it
\* ends with the status Completed or Stopped.
C20_Rearm ==
    /\ [][\A c \in Callers, i \in Slots, t \in Objs :
             Rearms(c, i, t)
             => /\ call'[c].pc = "SetNewLambda_join"
                /\ call'[c].idx = i
                /\ call'[c].obj = t
                /\ m_lambda'[t] = call'[c].lam
                /\ fatal' = "none"]_vars
    /\ [][\A c \in Callers :
             (call[c].pc = "SetNewLambda_join" /\ call'[c] # call[c])
             => /\ call'[c].pc = "ret"
                /\ call'[c].ret = SUCCEEDED
                /\ m_threads'[call[c].idx] = NewThread(call[c].obj)
                /\ m_threadsTasks'[call[c].idx] = call[c].obj]_vars
    /\ [][\A c \in Callers :
             call[c].pc = "SetNewLambda_join"
             => LET i == call[c].idx
                IN ~(m_threads[i].pc = "Run_call" /\ m_threads'[i].pc # "Run_call")]_vars
    /\ [][\A i \in Slots :
             /\ (m_threads[i].pc = "Run_setRunning" /\ m_threads'[i].pc = "Run_call")
                => IsRunning(m_threads[i].task)'
             /\ RunEnds(i) => SlotFinished(m_threads[i].task)']_vars

(***************************************************************************)
(* Further properties of the TinyTask state machine (SpecTask, FairTask)   *)
(***************************************************************************)
\* Caller c takes a step of a call of Stop() it is in or begins
StopStep(c) == call'[c] # call[c] /\ (call[c].op = "Stop" \/ call'[c].op = "Stop")

\* C21, the state Stop() leaves: at the return of Stop() the status of its
\* task is Running.
C21_RunningAfterStop ==
    [][\A c \in Callers :
          (call[c].op = "Stop" /\ call[c].pc # "ret" /\ call'[c].pc = "ret")
          => IsRunning(call[c].obj)']_vars

\* C21, what is cooperative: no step of Stop() writes a status other than Running; a
\* status becomes Stopped or Completed only by the last write of TinyTask::Run
\* in a thread whose work item has returned; and a work item that does not poll
\* IsStopping() leaves its loop only when its counter has run out, whatever
\* isStopping is.
C21_Cooperative ==
    /\ [][\A c \in Callers, t \in Objs :
             (StopStep(c) /\ m_status'[t] # m_status[t])
             => (t = call[c].obj /\ m_status'[t] = RUNNING)]_vars
    /\ [][\A t \in Objs :
             (m_status'[t] # m_status[t] /\ m_status'[t] \in {STOPPED, COMPLETED})
             => \E i \in Slots :
                   /\ m_threads[i].task = t
                   /\ RunEnds(i)
                   /\ m_threads[i].pc = (IF m_status'[t] = STOPPED
                                         THEN "Run_setStopped" ELSE "Run_setCompleted")
                   /\ call' = call]_vars
    /\ [][\A i \in Slots :
             (/\ m_threads[i].pc = "loop_cond"
              /\ m_threads[i].work \in {"Plain", "Progress", "Pausable"}
              /\ m_threads'[i] # m_threads[i])
             => m_threads'[i].pc = (IF m_threads[i].counter > 0
                                    THEN "loop_body" ELSE "Run_isStopping")]_vars

\* Stop() has returned with the flag set and the work item, which does not
\* poll it, goes on in its loop with the status Running
C21_Witness ==
    /\ call["main"].op = "Stop" /\ call["main"].pc = "ret"
    /\ IsStopping(1) /\ IsRunning(1)
    /\ m_threads[1].task = 1
    /\ m_threads[1].work = "Plain"
    /\ m_threads[1].pc = "loop_body"

\* C22: whenever the status is Stopped isStopping is false, and whenever the
\* status is Running or Paused and Stop() was never called on the task
\* isStopping is false.
C22_FlagOnlyWhileStopping ==
    \A t \in Objs :
       /\ HasStopped(t) => ~IsStopping(t)
       /\ ((IsRunning(t) \/ IsPaused(t)) /\ t \notin hist.stops) => ~IsStopping(t)

(***************************************************************************)
(* Worker threads and slots                                                *)
(***************************************************************************)
\* The slots whose thread is inside TinyTask::Run
BusySlots == {i \in Slots : m_threads[i].task # 0 /\ m_threads[i].pc # "done"}

\* C23: the pool has GetNumThreads() threads, so at most that many are inside
\* TinyTask::Run at a time; the thread of a slot is replaced only by a caller
\* that is in the join of that slot inside SetNewLambdaForTask or
\* RunPendingTasks, when the slot's thread has ended, and the thread it
\* replaces, if it ran a task, has left that task Stopped or Completed.
C23_OneWorkerPerSlot ==
    /\ [](Len(m_threads) = GetNumThreads /\ Cardinality(BusySlots) <= GetNumThreads)
    /\ [][\A i \in Slots :
             (m_threads'[i] # m_threads[i] /\ m_threads'[i].pc = "Run_setRunning")
             => /\ Joinable(i)
                /\ m_threads[i].task # 0 => SlotFinished(m_threads[i].task)
                /\ \E c \in Callers :
                      /\ call[c].pc \in {"SetNewLambda_join", "RunPending_join"}
                      /\ call[c].idx = i
                      /\ m_poolDataMutex = c
                      /\ call'[c] # call[c]]_vars

\* Every thread of a pool of more than kMinNumThreadsInPool threads is inside
\* Run, one more task waits in the queue, and a slot has had a thread before
C23_Witness ==
    /\ GetNumThreads > kMinNumThreadsInPool
    /\ Cardinality(BusySlots) = GetNumThreads
    /\ GetNumPendingTasks > 0
    /\ \E c \in Callers : call[c].op = "SetNewLambdaForTask" /\ call[c].pc = "ret"

\* C24: SetNewLambdaForTask stores the new work item of a slot-bound task only
\* when the thread of the task's slot has ended: no work item of a task changes
\* while a thread is inside TinyTask::Run of the task, and when a call has
\* stored the work item and goes to its join no thread is inside
\* TinyTask::Run of the task.
C24_LambdaWrittenAfterJoin ==
    /\ [][\A t \in Objs : m_lambda'[t] # m_lambda[t] => InRun(t) = {}]_vars
    /\ [][\A c \in Callers :
             (Dispatches(c) /\ call'[c].pc = "SetNewLambda_join")
             => InRun(call'[c].obj) = {}]_vars

\* C25: every step of a call of CreateTask, SetNewLambdaForTask,
\* RunPendingTasks or GetNumPendingTasks, each of which reads or writes
\* m_threadsTasks, m_pendingTasks, m_tasks or m_nextFreeTaskId, is taken while
\* the caller has m_poolDataMutex or can take it: no other thread is inside
\* the lock.
C25_AccessUnderLock ==
    [][\A c \in Callers :
          (call'[c] # call[c] /\ call'[c].pc # "idle")
          => m_poolDataMutex \in {"free", c}]_vars

(***************************************************************************)
(* Progress and the queries of a TinyTask: a task whose work item reports  *)
(* progress values of its choice, and a caller that queries the task while *)
(* it pauses, resumes, stops and re-runs it.                               *)
(***************************************************************************)
\* The values given to SetProgress(const float progress): any float is taken
ProgressValues == {-1, 50, 250}

\* The work item "Reports": task.SetProgress(v), then it returns
WorkSetProgress(i, v) ==
    /\ Alive
    /\ m_threads[i].pc = "work_SetProgress"
    /\ m_progress' = SetProgress(m_threads[i].task, v)
    /\ hist' = [hist EXCEPT !.passed = Passed(m_threads[i].task, v)]
    /\ m_threads' = [m_threads EXCEPT ![i].pc = "Run_isStopping"]
    /\ UNCHANGED <<m_status, m_isStopping, m_lambda, m_ID, poolVars, call, fatal>>

\* The const member functions of lines 186-206
Queries == {"GetID", "GetStatus", "IsRunning", "IsPaused", "IsStopping", "HasStopped",
            "HasCompleted", "GetProgress"}

QueryValue(q, t) ==
    CASE q = "GetID" -> GetID(t)
      [] q = "GetStatus" -> GetStatus(t)
      [] q = "IsRunning" -> IsRunning(t)
      [] q = "IsPaused" -> IsPaused(t)
      [] q = "IsStopping" -> IsStopping(t)
      [] q = "HasStopped" -> HasStopped(t)
      [] q = "HasCompleted" -> HasCompleted(t)
      [] q = "GetProgress" -> GetProgress(t)

\* A caller calls one of the queries on task t
CallQuery(c, t, q) ==
    /\ Alive
    /\ call[c].pc = "idle"
    /\ call' = [call EXCEPT ![c] = [CallIdle EXCEPT !.pc = "ret", !.op = q, !.obj = t,
                                                    !.ret = QueryValue(q, t)]]
    /\ UNCHANGED <<taskVars, m_threads, poolVars, fatal, hist>>

NextProgress ==
    \/ \E i \in Slots : RunSetRunning(i)
    \/ \E i \in Slots : RunCall(i)
    \/ \E i \in Slots : LoopCond(i)
    \/ \E i \in Slots : LoopBody(i)
    \/ \E i \in Slots : PauseIfNeeded(i)
    \/ \E i \in Slots, v \in ProgressValues : WorkSetProgress(i, v)
    \/ \E i \in Slots : RunIsStopping(i)
    \/ \E i \in Slots : RunClearFlag(i)
    \/ \E i \in Slots : RunSetStopped(i)
    \/ \E i \in Slots : RunSetCompleted(i)
    \/ \E c \in Callers, t \in Objs : PauseAssert(c, t)
    \/ \E c \in Callers : PauseSet(c)
    \/ \E c \in Callers, t \in Objs : ResumeAssert(c, t)
    \/ \E c \in Callers : ResumeSet(c)
    \/ \E c \in Callers, t \in Objs : StopAssert(c, t)
    \/ \E c \in Callers : StopIsPaused(c)
    \/ \E c \in Callers : StopResumeAssert(c)
    \/ \E c \in Callers : StopSetFlag(c)
    \/ \E c \in Callers, t \in Objs, q \in Queries : CallQuery(c, t, q)
    \/ \E c \in Callers : Return(c)
    \/ \E i \in Slots, t \in Objs : TaskThread(i, t)
    \/ \E i \in Slots, t \in Objs : TaskSetLambda(i, t, "Reports")

SpecProgress == InitTask /\ [][NextProgress]_vars

\* The value the last call of SetProgress on t has passed; 0 when there was none
LastPassed(t) ==
    IF \E p \in hist.passed : p[1] = t
    THEN (CHOOSE p \in hist.passed : p[1] = t)[2]
    ELSE 0

\* C26: the progress of a task is the value the most recent SetProgress on it
\* has passed, as passed, and 0 when SetProgress was never called on it, so it
\* changes in no step but a call of SetProgress; GetProgress() returns it; and
\* a call of a query changes nothing of the task, the threads or the pool.
C26_ProgressReadout ==
    /\ [](\A t \in Objs : GetProgress(t) = LastPassed(t))
    /\ [][\A c \in Callers :
             (call[c].pc = "idle" /\ call'[c].op \in Queries)
             => /\ call'[c].op = "GetProgress" => call'[c].ret = LastPassed(call'[c].obj)
                /\ UNCHANGED <<taskVars, m_threads, poolVars, fatal>>]_vars
    /\ [][\A t \in Objs :
             m_progress'[t] # m_progress[t]
             => \E i \in Slots : /\ m_threads[i].task = t
                                 /\ m_threads[i].pc \in {"work_SetProgress", "loop_body"}
                                 /\ m_threads'[i] # m_threads[i]]_vars

\* GetProgress() has returned a value above 100 that a run before the last
\* Stop() has reported, the task having been paused, resumed, stopped since
C26_Witness ==
    /\ call["main"].op = "GetProgress" /\ call["main"].pc = "ret"
    /\ call["main"].ret = 250
    /\ HasStopped(1)
    /\ m_threads[1].pc = "done"

\* The thread of slot i waits in PauseIfNeeded
InPauseIfNeeded(i) == m_threads[i].pc = "PauseIfNeeded"

\* C27: a thread leaves PauseIfNeeded only in a step that finds the status not
\* Paused, and that step changes neither status nor isStopping; and when the
\* thread is in PauseIfNeeded with the status not Paused, it eventually has
\* returned, unless the status is Paused again at its poll or the process has
\* ended in a failed assertion.
C27_PauseIfNeeded ==
    /\ [][\A i \in Slots :
             (InPauseIfNeeded(i) /\ m_threads'[i] # m_threads[i])
             => /\ ~IsPaused(m_threads[i].task)
                /\ m_threads'[i].pc = "loop_cond"
                /\ m_status' = m_status
                /\ m_isStopping' = m_isStopping]_vars
    /\ \A i \in {1} :
          [](InPauseIfNeeded(i) /\ ~IsPaused(m_threads[i].task)
                => <>(~InPauseIfNeeded(i) \/ IsPaused(m_threads[i].task) \/ ~Alive))

\* The work item waits in PauseIfNeeded and Stop() has just resumed the task
C27_Witness ==
    /\ InPauseIfNeeded(1)
    /\ m_threads[1].task = 1
    /\ IsRunning(1)
    /\ call["main"].op = "Stop" /\ call["main"].pc = "Stop_setFlag"
    /\ 1 \in hist.stops

(***************************************************************************)
(* Further properties of the pool (SpecPool)                               *)
(***************************************************************************)
\* Slot i, which held a task, holds another one after the step
Rebinds(i) == m_threadsTasks[i] # 0 /\ m_threadsTasks'[i] # m_threadsTasks[i]

\* C28, the slots: a slot that holds a task gets another one only in the join
\* step of RunPendingTasks on that slot, its task being Stopped or Completed
\* and the queue not empty, and the task it gets is the front of the queue.
C28_RebindOnlyFinished ==
    [][\A i \in Slots :
          Rebinds(i)
          => /\ SlotFinished(m_threadsTasks[i])
             /\ m_pendingTasks # <<>>
             /\ m_threadsTasks'[i] = Front(m_pendingTasks)
             /\ \E c \in Callers : /\ call[c].op = "RunPendingTasks"
                                   /\ call[c].pc = "RunPending_join"
                                   /\ call[c].idx = i
                                   /\ call'[c] # call[c]]_vars

\* C28: the slots as above, and every call of RunPendingTasks returns
\* SUCCEEDED: none ends in a failed assertion or with another result.
C28_RunPendingSucceeds ==
    /\ C28_RebindOnlyFinished
    /\ [][\A c \in Callers :
             (call'[c].op = "RunPendingTasks" /\ call'[c] # call[c])
             => /\ call'[c].pc # "failed"
                /\ call'[c].pc = "ret" => call'[c].ret = SUCCEEDED]_vars

\* The slots that hold no task
FreeSlots == {i \in DOMAIN m_threadsTasks : m_threadsTasks[i] = 0}

\* C29: the step of CreateTask that allocates the task puts it in the free slot
\* of lowest index and leaves the queue alone, or, when no slot is free,
\* appends it to the queue and leaves every slot alone, whatever the status of
\* the slots' tasks; a slot that holds a task is never free again, so once
\* GetNumThreads() tasks have been created no slot is free.
C29_CreateBinds ==
    /\ [](Len(hist.created) >= GetNumThreads => FreeSlots = {})
    /\ [][\A i \in Slots : m_threadsTasks[i] # 0 => m_threadsTasks'[i] # 0]_vars
    /\ [][\A c \in Callers :
             (call[c].pc = "CreateTask_lock" /\ call'[c] # call[c])
             => LET newTask == Len(m_status')
                IN /\ Len(m_status') = Len(m_status) + 1
                   /\ IF FreeSlots # {}
                      THEN /\ m_threadsTasks' = [m_threadsTasks EXCEPT ![Min(FreeSlots)] = newTask]
                           /\ m_pendingTasks' = m_pendingTasks
                      ELSE /\ m_pendingTasks' = Append(m_pendingTasks, newTask)
                           /\ m_threadsTasks' = m_threadsTasks]_vars

\* CreateTask has queued a task while the task of a slot was Completed
C29_Witness ==
    /\ call["main"].op = "CreateTask" /\ call["main"].pc = "ret"
    /\ m_pendingTasks # <<>>
    /\ m_pendingTasks[Len(m_pendingTasks)] = Len(m_status)
    /\ \E i \in Slots : m_threadsTasks[i] # 0 /\ HasCompleted(m_threadsTasks[i])

(***************************************************************************)
(* A pool on which one caller uses every operation: it creates, dispatches,*)
(* drains, looks up, stops and counts tasks and destroys the pool.         *)
(***************************************************************************)
NextFrame ==
    \/ \E i \in Slots : EmptyLambda(i)
    \/ \E i \in Slots : RunSetRunning(i)
    \/ \E i \in Slots : RunCall(i)
    \/ \E i \in Slots : LoopCond(i)
    \/ \E i \in Slots : LoopBody(i)
    \/ \E i \in Slots : RunIsStopping(i)
    \/ \E i \in Slots : RunClearFlag(i)
    \/ \E i \in Slots : RunSetStopped(i)
    \/ \E i \in Slots : RunSetCompleted(i)
    \/ \E c \in Callers : CtlCreate(c)
    \/ \E c \in Callers : CreateTaskLocked(c)
    \/ \E c \in Callers, id \in SomeIds :
          call[c].pc = "idle" /\ RearmDispatch(c, id, "UntilStop")
    \/ \E c \in Callers, id \in SomeIds :
          /\ call[c].pc = "idle"
          /\ id \in DOMAIN m_tasks
          /\ IsQueued(m_tasks[id])
          /\ SetNewLambdaForTask(c, id, "Plain")
    \/ \E c \in Callers : SetNewLambdaJoin(c)
    \/ \E c \in Callers : RunPendingTasks(c)
    \/ \E c \in Callers : RunPendingLoop(c)
    \/ \E c \in Callers : RunPendingJoin(c)
    \/ \E c \in Callers, id \in SomeIds : GetTask(c, id)
    \/ \E c \in Callers, t \in Objs : RearmStop(c, t)
    \/ \E c \in Callers : StopIsPaused(c)
    \/ \E c \in Callers : StopSetFlag(c)
    \/ \E c \in Callers : GetNumRunningTasks(c)
    \/ \E c \in Callers : Destructor(c)
    \/ \E c \in Callers : GetNumRunningLoop(c)
    \/ \E c \in Callers : StopAllThreads(c)
    \/ \E c \in Callers : DestructorRelease(c)
    \/ \E c \in Callers : Return(c)

SpecFrame == InitPool /\ [][NextFrame]_vars

\* C30: the pending queue gets shorter, or one of its tasks gets into a slot,
\* only in the join step of RunPendingTasks, which takes one task, the front,
\* into the slot it rebinds, and in the destructor, which empties the queue;
\* no step of CreateTask, SetNewLambdaForTask, GetTask or GetNumRunningTasks
\* and no step of a worker thread does either.
QueueDrainStep ==
    (\E c \in Callers :
        /\ call[c].op = "RunPendingTasks" /\ call[c].pc = "RunPending_join"
        /\ call'[c] # call[c]
        /\ m_pendingTasks # <<>>
        /\ m_pendingTasks' = Tail(m_pendingTasks)
        /\ m_threadsTasks' = [m_threadsTasks EXCEPT ![call[c].idx] = Head(m_pendingTasks)])
    \/ (\E c \in Callers :
           /\ call[c].op = "~TinyTasksPool" /\ call'[c].pc = "destroyed"
           /\ m_pendingTasks' = <<>>)

C30_QueueShrinksOnlyInDrain ==
    /\ [][(\/ Len(m_pendingTasks') < Len(m_pendingTasks)
           \/ \E t \in Range(m_pendingTasks) : t \in Range(m_threadsTasks'))
          => QueueDrainStep]_vars
    /\ [][\A c \in Callers :
             (call'[c] # call[c] /\ (call[c].op = "RunPendingTasks" \/ call'[c].op = "RunPendingTasks"))
             => Len(m_pendingTasks') >= Len(m_pendingTasks) - 1]_vars
    /\ [][(\/ \E c \in Callers :
                 /\ call'[c] # call[c]
                 /\ call'[c].op \in {"CreateTask", "SetNewLambdaForTask", "GetTask",
                                     "GetNumRunningTasks", "Stop"}
           \/ m_threads' # m_threads /\ call' = call)
          => /\ Len(m_pendingTasks') >= Len(m_pendingTasks)
             /\ SubSeq(m_pendingTasks', 1, Len(m_pendingTasks)) = m_pendingTasks
             /\ \A t \in Range(m_pendingTasks) : t \notin Range(m_threadsTasks')]_vars

\* A queued task has been given its work item and the tasks of both slots have
\* ended, one of them Stopped, and the task is still in the queue, GetTask
\* having just returned it
C30_Witness ==
    /\ m_pendingTasks # <<>>
    /\ m_lambda[Head(m_pendingTasks)] = "Plain"
    /\ \A i \in Slots : m_threadsTasks[i] # 0 /\ SlotFinished(m_threadsTasks[i])
    /\ \E i \in Slots : HasStopped(m_threadsTasks[i])
    /\ call["main"].op = "GetTask" /\ call["main"].pc = "ret"
    /\ call["main"].ret = Head(m_pendingTasks)

CallGetTaskStatus(c, taskID) ==
    /\ Alive
    /\ call[c].pc = "idle"
    /\ call' = [call EXCEPT ![c] = [CallIdle EXCEPT !.pc = "GetTask_lock", !.op = "GetTaskStatus",
                                                    !.id = taskID]]
    /\ UNCHANGED <<taskVars, m_threads, poolVars, fatal, hist>>

\* GetTask, lines 394-401, under the lock, and the assert(task) of line 410
GetTaskStatusLocked(c) ==
    /\ Alive
    /\ call[c].pc = "GetTask_lock"
    /\ m_poolDataMutex = "free"
    /\ LET task == MapFind(m_tasks, call[c].id) IN
       IF task # 0
       THEN /\ call' = [call EXCEPT ![c].pc = "GetTaskStatus_read", ![c].obj = task]
            /\ UNCHANGED fatal
       ELSE /\ call' = [call EXCEPT ![c].pc = "failed"]
            /\ fatal' = "assert"
    /\ UNCHANGED <<taskVars, m_threads, poolVars, hist>>

\* GetTaskStatus, line 412: return task->GetStatus()
GetTaskStatusRead(c) ==
    /\ Alive
    /\ call[c].pc = "GetTaskStatus_read"
    /\ call' = [call EXCEPT ![c] = Returned(c, GetStatus(call[c].obj))]
    /\ UNCHANGED <<taskVars, m_threads, poolVars, fatal, hist>>

NextPoll ==
    \/ \E i \in Slots : EmptyLambda(i)
    \/ \E i \in Slots : RunSetRunning(i)
    \/ \E i \in Slots : RunCall(i)
    \/ \E i \in Slots : LoopCond(i)
    \/ \E i \in Slots : LoopBody(i)
    \/ \E i \in Slots : RunIsStopping(i)
    \/ \E i \in Slots : RunSetCompleted(i)
    \/ TwoCreate("main")
    \/ CreateTaskLocked("main")
    \/ \E id \in DOMAIN m_tasks : SetNewLambdaForTask("main", id, "Plain")
    \/ SetNewLambdaJoin("main")
    \/ RunPendingTasks("main")
    \/ RunPendingLoop("main")
    \/ RunPendingJoin("main")
    \/ \E t \in Objs, q \in Queries : CallQuery("other", t, q)
    \/ \E id \in SomeIds : CallGetTaskStatus("other", id)
    \/ GetTaskStatusLocked("other")
    \/ GetTaskStatusRead("other")
    \/ \E c \in Callers : Return(c)

SpecPoll == InitTwo /\ [][NextPoll]_vars

\* Caller d holds the pool's lock in the join of SetNewLambdaForTask or of
\* RunPendingTasks, and the thread it joins has not ended
InBlockingJoin(d) ==
    /\ call[d].pc \in {"SetNewLambda_join", "RunPending_join"}
    /\ m_poolDataMutex = d
    /\ ~Joinable(call[d].idx)

\* C32: a thread reading the state of a task is never waiting for the pool's
\* lock while another thread is in a blocking join of SetNewLambdaForTask or
\* RunPendingTasks: no GetTaskStatus call is at its lock acquisition then.
C32_PollerNeverWaits ==
    \A c, d \in Callers :
        (c # d /\ InBlockingJoin(d)) => ~(call[c].op = "GetTaskStatus" /\ call[c].pc = "GetTask_lock")

\* The queries on a task handle do complete then: each is one read of an atomic
\* of the task, made whoever holds the pool's lock
C32_HandleQueriesComplete ==
    [][\A c \in Callers, t \in Objs, q \in Queries :
          (call[c].pc = "idle" /\ call'[c].op = q /\ call'[c].obj = t)
          => /\ call'[c].pc = "ret"
             /\ call'[c].ret = QueryValue(q, t)]_vars

(***************************************************************************)
(* Teardown under a fair scheduler (FairCtl)                               *)
(***************************************************************************)
\* One step of a caller inside ~TinyTasksPool
DestructorStep(c) == GetNumRunningLoop(c) \/ StopAllThreads(c) \/ DestructorRelease(c)

\* Every thread that can take a step is scheduled, and so is the thread in the destructor
FairCtl ==
    /\ SpecCtl
    /\ \A i \in 1..kMinNumThreadsInPool : WF_vars(PoolThreadStep(i))
    /\ \A c \in {"main"} : WF_vars(DestructorStep(c))

\* C33: when the destructor's GetNumRunningTasks() has returned 0, so that
\* the destructor goes on to join the threads, every join returns and the
\* destructor comes to its end.
C33_TeardownTerminates ==
    \A c \in {"main"} :
        [](call[c].pc = "StopAllThreads" => <>(call[c].pc = "destroyed" \/ ~Alive))

\* C34: while the queue is empty, a call of RunPendingTasks goes through the
\* slots and returns SUCCEEDED: no step of it fails, rebinds a slot, joins or
\* starts a thread, or touches the queue, whatever the slots hold.
C34_EmptyQueueNoOp ==
    [][\A c \in Callers :
          (call'[c].op = "RunPendingTasks" /\ call'[c] # call[c] /\ m_pendingTasks = <<>>)
          => /\ call'[c].pc \in {"RunPending_loop", "ret"}
             /\ fatal' = "none"
             /\ m_threadsTasks' = m_threadsTasks
             /\ m_threads' = m_threads
             /\ m_pendingTasks' = <<>>
             /\ call'[c].pc = "ret" => call'[c].ret = SUCCEEDED]_vars

\* The same on a pool whose slots are all bound
C34_EmptyQueueNoOpBound ==
    [][\A c \in Callers :
          (/\ call'[c].op = "RunPendingTasks" /\ call'[c] # call[c] /\ m_pendingTasks = <<>>
           /\ FreeSlots = {})
          => /\ call'[c].pc \in {"RunPending_loop", "ret"}
             /\ fatal' = "none"
             /\ m_threadsTasks' = m_threadsTasks
             /\ m_threads' = m_threads
             /\ m_pendingTasks' = <<>>
             /\ call'[c].pc = "ret" => call'[c].ret = SUCCEEDED]_vars

\* C35: the task a step of RunPendingTasks starts a thread for has a work
\* item, and no thread comes to call the empty work item of a task.
C35_DrainStartsOnlyWithWork ==
    /\ [][\A c \in Callers :
             (call[c].op = "RunPendingTasks" /\ call'[c] # call[c])
             => \A i \in Slots :
                   m_threads'[i] # m_threads[i] => m_lambda[m_threads'[i].task] # "none"]_vars
    /\ [](fatal # "bad_function_call")

(***************************************************************************)
(* A pool near the end of its ids: kMaxNumTasksInPool - 1 tasks have been  *)
(* created (ids 0 .. kMaxNumTasksInPool - 2), none dispatched, and two     *)
(* threads go on calling CreateTask.  Of the tasks created before, the     *)
(* state holds the two bound to the slots (ids 0 and 1); the queued ones   *)
(* (ids 2 .. kMaxNumTasksInPool - 2), which no CreateTask reads, are left  *)
(* out of the task objects, the queue and the directory, and QueuedBefore  *)
(* stands for their ids.                                                   *)
(***************************************************************************)
CreatedBefore == kMaxNumTasksInPool - 1
QueuedBefore == kMinNumThreadsInPool..(CreatedBefore - 1)

InitLastIds ==
    /\ m_status = [t \in 1..kMinNumThreadsInPool |-> PAUSED]
    /\ m_isStopping = [t \in 1..kMinNumThreadsInPool |-> FALSE]
    /\ m_progress = [t \in 1..kMinNumThreadsInPool |-> 0]
    /\ m_lambda = [t \in 1..kMinNumThreadsInPool |-> "none"]
    /\ m_ID = [t \in 1..kMinNumThreadsInPool |-> t - 1]
    /\ m_numThreads = kMinNumThreadsInPool
    /\ m_threads = InitThreads(kMinNumThreadsInPool)
    /\ m_threadsTasks = [i \in 1..kMinNumThreadsInPool |-> i]
    /\ m_pendingTasks = <<>>
    /\ m_tasks = [id \in 0..(kMinNumThreadsInPool - 1) |-> id + 1]
    /\ m_nextFreeTaskId = CreatedBefore
    /\ m_poolDataMutex = "free"
    /\ fatal = "none"
    /\ hist = HistInit
    /\ call = [c \in {"main", "other"} |-> CallIdle]

\* CreateTask, line 281, on this pool: at most MaxTasks further task objects
LastIdsCreate(c) ==
    /\ Alive
    /\ call[c].pc = "idle"
    /\ Len(m_status) + Cardinality({d \in Callers : call[d].pc = "CreateTask_lock"})
          < kMinNumThreadsInPool + MaxTasks
    /\ IF m_nextFreeTaskId < kMaxNumTasksInPool
       THEN /\ call' = [call EXCEPT ![c] = [CallIdle EXCEPT !.pc = "CreateTask_lock", !.op = "CreateTask"]]
            /\ UNCHANGED fatal
       ELSE /\ call' = [call EXCEPT ![c] = Failed(c, "CreateTask", 0)]
            /\ fatal' = "assert"
    /\ UNCHANGED <<taskVars, m_threads, poolVars, hist>>

NextLastIds ==
    \/ \E i \in Slots : EmptyLambda(i)
    \/ \E c \in Callers : LastIdsCreate(c)
    \/ \E c \in Callers : CreateTaskLocked(c)
    \/ \E c \in Callers : Return(c)

SpecLastIds == InitLastIds /\ [][NextLastIds]_vars

\* C36: every id a CreateTask call gives out, whatever other calls are under
\* way, is below kMaxNumTasksInPool and is not the id of a task already in
\* the directory; the counter never goes back to such an id.
C36_IdsFreshAndBelowLimit ==
    [][\A c \in Callers :
          (call[c].pc = "CreateTask_lock" /\ call'[c].pc = "ret")
          => /\ call'[c].ret < kMaxNumTasksInPool
             /\ call'[c].ret \notin DOMAIN m_tasks \cup QueuedBefore
             /\ m_nextFreeTaskId' \notin DOMAIN m_tasks' \cup QueuedBefore]_vars

\* The ids below the limit are given once: a call that finds the counter below
\* kMaxNumTasksInPool when it holds the lock returns a fresh id
C36_FreshBelowLimit ==
    [][\A c \in Callers :
          (call[c].pc = "CreateTask_lock" /\ call'[c].pc = "ret"
           /\ m_nextFreeTaskId < kMaxNumTasksInPool /\ m_nextFreeTaskId >= CreatedBefore)
          => /\ call'[c].ret = m_nextFreeTaskId
             /\ call'[c].ret \notin DOMAIN m_tasks \cup QueuedBefore]_vars

\* C37: while the queue is not empty every slot holds a task; a slot that
\* holds a task holds one (the same or another) after every step but the
\* destructor's release; the queue grows only by a step of CreateTask taken
\* when no slot is free.
C37_QueueOnlyWhenAllBound ==
    /\ [](m_pendingTasks # <<>> => FreeSlots = {})
    /\ [][\A i \in Slots :
             (m_threadsTasks[i] # 0 /\ m_threadsTasks'[i] = 0)
             => \E c \in Callers : call[c].op = "~TinyTasksPool" /\ call'[c].pc = "destroyed"]_vars
    /\ [][Len(m_pendingTasks') > Len(m_pendingTasks)
          => /\ FreeSlots = {}
             /\ \E c \in Callers : call[c].pc = "CreateTask_lock" /\ call'[c].pc = "ret"]_vars

\* RunPendingTasks is about to rebind a slot: the queue holds a task and no slot is free
C37_Witness ==
    /\ m_pendingTasks # <<>>
    /\ FreeSlots = {}
    /\ call["main"].op = "RunPendingTasks"
    /\ call["main"].pc = "RunPending_join"

(***************************************************************************)
(* Status, stop flag and run cycles (SpecCtl, SpecRearm)                   *)
(***************************************************************************)
\* C38: a task of a slot or of the queue has status Running only while a
\* thread is inside TinyTask::Run of it, and GetNumRunningTasks counts a slot
\* only when a thread is inside Run of its task.
C38_RunningOnlyInRun ==
    /\ \A t \in Objs : ((IsSlotBound(t) \/ IsQueued(t)) /\ IsRunning(t)) => InRun(t) # {}
    /\ \A c \in Callers :
          (call[c].op = "GetNumRunningTasks" /\ call[c].pc = "ret")
          => call[c].ret <= Cardinality({i \in Slots : m_threads[i].task # 0})

\* C39: when SetNewLambdaForTask has returned SUCCEEDED for a task, then as
\* long as the thread it started has not come back from the work item the
\* task reports neither HasCompleted() nor HasStopped().
C39_NoStaleTerminalStatus ==
    \A c \in Callers :
        (/\ call[c].op = "SetNewLambdaForTask"
         /\ call[c].pc = "ret"
         /\ call[c].ret = SUCCEEDED
         /\ m_threads[call[c].idx].task = call[c].obj
         /\ m_threads[call[c].idx].pc \in {"Run_setRunning", "Run_call", "loop_cond", "loop_body"})
        => ~(HasCompleted(call[c].obj) \/ HasStopped(call[c].obj))

\* C40, the flag: a Completed task does not have its stop flag set.
C40_NoFlagWhileCompleted == \A t \in Objs : HasCompleted(t) => ~IsStopping(t)

\* C40, the next run cycle: when SetNewLambdaForTask starts the thread of a
\* task, the task's stop flag is not set, so that the run can end Stopped only
\* through a Stop() called after it began.
C40_CleanAtDispatch ==
    [][\A c \in Callers :
          (call[c].pc = "SetNewLambda_join" /\ call'[c].pc = "ret")
          => ~IsStopping(call[c].obj)]_vars

\* C40: a stop request does not outlive the run cycle it was made in.
C40_StopDoesNotLeak == []C40_NoFlagWhileCompleted /\ C40_CleanAtDispatch

====
